---- MODULE Spec2Model ----
(***************************************************************************)
(* TyreTerra: the Telegram bots of the tyre-inventory exchange.            *)
(*                                                                         *)
(* Three programs are modelled, each as the aiogram dispatcher it builds:  *)
(*   src/en_v1_bot.py  - actions en_...,  specification SpecEn             *)
(*   src/v1_bot.py     - actions v1_...,  specification SpecV1             *)
(*   src/bot.py        - actions bot_..., specification SpecBot            *)
(* A message is routed to the first registered handler whose filter        *)
(* matches, and the handler body is one atomic action.                     *)
(***************************************************************************)
EXTENDS Integers, Sequences, FiniteSets, TLC

VARIABLES
    program,        \* which of the three bots is running
    users,          \* table users: set of rows
    stock,          \* table stock: set of rows
    next_user_id,   \* AUTOINCREMENT of users.id
    next_stock_id,  \* AUTOINCREMENT of stock.id
    fsm_state,      \* FSMContext state of each chat, "None" when idle
    fsm_data,       \* FSMContext data of each chat: field name -> value
    requests,       \* RateLimiter.requests: per user, the age of each recorded request
    subscriptions,  \* table subscriptions of v1_bot: set of rows
    actor,          \* the account whose messages this run delivers
    call,           \* a helper function called on its own: arguments and result
    cache,          \* Cache.cache of en_v1_bot: key -> the data and its age
    last            \* the message handled last: who, by which handler, the reply

vars == <<program, users, stock, next_user_id, next_stock_id, fsm_state, fsm_data,
          requests, subscriptions, actor, call, cache, last>>

(***************************************************************************)
(* Accounts and configuration                                              *)
(***************************************************************************)
Users == {1, 2}

\* ADMIN_IDS: the admin list holds one Telegram id; account 1 plays it.
ADMIN_IDS == {1}

is_admin(telegram_id) == telegram_id \in ADMIN_IDS

\* RateLimiter(max_requests=10, window=60)
max_requests == 10
window == 60

\* MAX_STOCK_ITEMS is read from the environment; the modelled deployment sets 2.
MAX_STOCK_ITEMS == 2

\* Ids handed out by AUTOINCREMENT stay below this bound.
MaxStockId == 3

NoValue == "<none>"

(***************************************************************************)
(* Message texts.  A text is a token; Chars gives the characters of the    *)
(* tokens that a validator or a number parser reads.                       *)
(***************************************************************************)
Chars(text) ==
    CASE text = "10"           -> <<"1", "0">>
      [] text = "0"            -> <<"0">>
      [] text = "abc"          -> <<"a", "b", "c">>
      [] text = "4500"         -> <<"4", "5", "0", "0">>
      [] text = "4000"         -> <<"4", "0", "0", "0">>
      [] text = "4500,50"      -> <<"4", "5", "0", "0", ",", "5", "0">>
      [] text = "4 500"        -> <<"4", " ", "5", "0", "0">>
      [] text = "7701234567"   -> <<"7", "7", "0", "1", "2", "3", "4", "5", "6", "7">>
      [] text = "123456789"    -> <<"1", "2", "3", "4", "5", "6", "7", "8", "9">>
      [] text = "89991234567"  -> <<"8", "9", "9", "9", "1", "2", "3", "4", "5", "6", "7">>
      [] text = "a@b.ru"       -> <<"a", "@", "b", ".", "r", "u">>
      [] text = "+79991234567" -> <<"+", "7", "9", "9", "9", "1", "2", "3", "4", "5", "6", "7">>
      [] text = "A1"           -> <<"A", "1">>
      [] text = "ZZ"           -> <<"Z", "Z">>
      [] text = "MSK-1"        -> <<"M", "S", "K", "-", "1">>
      [] text = "/search"      -> <<"/", "s", "e", "a", "r", "c", "h">>
      [] text = " a@b.ru "     -> <<" ", "a", "@", "b", ".", "r", "u", " ">>
      [] text = "205/55R16"    -> <<"2", "0", "5", "/", "5", "5", "R", "1", "6">>
      [] text = "195/65R15"    -> <<"1", "9", "5", "/", "6", "5", "R", "1", "5">>
      [] text = "Ice"          -> <<"I", "c", "e">>
      [] text = "Nokian"       -> <<"N", "o", "k", "i", "a", "n">>
      [] text = "Primacy"      -> <<"P", "r", "i", "m", "a", "c", "y">>
      [] text = "Michelin"     -> <<"M", "i", "c", "h", "e", "l", "i", "n">>
      [] text = "/addstock"    -> <<"/", "a", "d", "d", "s", "t", "o", "c", "k">>
      [] text = "B7"           -> <<"B", "7">>
      [] text = "FI"           -> <<"F", "I">>
      [] text = "91"           -> <<"9", "1">>
      [] text = "MSK"          -> <<"M", "S", "K">>
      [] text = "select * from stock" ->
            <<"s", "e", "l", "e", "c", "t", " ", "*", " ", "f", "r", "o", "m", " ",
              "s", "t", "o", "c", "k">>
      [] text = "DELETE FROM stock" ->
            <<"D", "E", "L", "E", "T", "E", " ", "F", "R", "O", "M", " ",
              "s", "t", "o", "c", "k">>
      [] text = "DROP"         -> <<"D", "R", "O", "P">>
      [] text = "not-an-email" -> <<"n", "o", "t", "-", "a", "n", "-", "e", "m", "a", "i", "l">>
      [] OTHER                 -> <<"?">>

Digits == {"0", "1", "2", "3", "4", "5", "6", "7", "8", "9"}
LowerCase == <<"a", "b", "c", "d", "e", "f", "g", "h", "i", "j", "k", "l", "m",
              "n", "o", "p", "q", "r", "s", "t", "u", "v", "w", "x", "y", "z">>

UpperCase == <<"A", "B", "C", "D", "E", "F", "G", "H", "I", "J", "K", "L", "M",
              "N", "O", "P", "Q", "R", "S", "T", "U", "V", "W", "X", "Y", "Z">>

Letters == {LowerCase[i] : i \in 1..26} \cup {UpperCase[i] : i \in 1..26}

DigitValue(c) ==
    CASE c = "0" -> 0 [] c = "1" -> 1 [] c = "2" -> 2 [] c = "3" -> 3 [] c = "4" -> 4
      [] c = "5" -> 5 [] c = "6" -> 6 [] c = "7" -> 7 [] c = "8" -> 8 [] c = "9" -> 9
      [] OTHER -> 0

\* str.replace(old, "") for a one-character old
RECURSIVE Without(_, _)
Without(s, c) ==
    IF s = <<>> THEN <<>>
    ELSE IF Head(s) = c THEN Without(Tail(s), c)
    ELSE <<Head(s)>> \o Without(Tail(s), c)

\* str.strip(): leading and trailing blanks removed
RECURSIVE LStrip(_)
LStrip(s) == IF s # <<>> /\ Head(s) = " " THEN LStrip(Tail(s)) ELSE s

RECURSIVE RStrip(_)
RStrip(s) ==
    IF s # <<>> /\ s[Len(s)] = " " THEN RStrip(SubSeq(s, 1, Len(s) - 1)) ELSE s

Strip(s) == RStrip(LStrip(s))

\* str.isdigit()
IsDigits(s) == s # <<>> /\ \A i \in 1..Len(s) : s[i] \in Digits

\* the value of a digit string
RECURSIVE DigitsValue(_)
DigitsValue(s) ==
    IF s = <<>> THEN 0
    ELSE 10 * DigitsValue(SubSeq(s, 1, Len(s) - 1)) + DigitValue(s[Len(s)])

\* int(text): blanks stripped, an optional sign, then digits; ValueError otherwise
py_int(text) ==
    LET s == Strip(Chars(text))
        signed == s # <<>> /\ Head(s) \in {"+", "-"}
        body == IF signed THEN Tail(s) ELSE s
    IN  IF IsDigits(body)
        THEN [ok |-> TRUE,
              value |-> IF signed /\ Head(s) = "-" THEN 0 - DigitsValue(body)
                        ELSE DigitsValue(body)]
        ELSE [ok |-> FALSE, value |-> 0]

\* position of the first c in s, 0 when absent
RECURSIVE IndexOf(_, _)
IndexOf(s, c) ==
    IF s = <<>> THEN 0
    ELSE IF Head(s) = c THEN 1
    ELSE LET k == IndexOf(Tail(s), c) IN IF k = 0 THEN 0 ELSE k + 1

\* a decimal numeral (digits, optionally a point and digits) in hundredths
DecimalOk(body) ==
    LET dot == IndexOf(body, ".")
        whole == IF dot = 0 THEN body ELSE SubSeq(body, 1, dot - 1)
        frac == IF dot = 0 THEN <<>> ELSE SubSeq(body, dot + 1, Len(body))
    IN  /\ (whole = <<>> \/ IsDigits(whole))
        /\ (frac = <<>> \/ IsDigits(frac))
        /\ (whole # <<>> \/ frac # <<>>)

DecimalValue(body) ==
    LET dot == IndexOf(body, ".")
        whole == IF dot = 0 THEN body ELSE SubSeq(body, 1, dot - 1)
        frac == IF dot = 0 THEN <<>> ELSE SubSeq(body, dot + 1, Len(body))
        cents == IF Len(frac) = 0 THEN 0
                 ELSE IF Len(frac) = 1 THEN 10 * DigitsValue(frac)
                 ELSE DigitsValue(SubSeq(frac, 1, 2))
    IN  100 * DigitsValue(whole) + cents

\* float(chars): blanks stripped, an optional sign, a decimal numeral; ValueError otherwise.
\* The value is kept in hundredths.
py_float_chars(chars) ==
    LET s == Strip(chars)
        signed == s # <<>> /\ Head(s) \in {"+", "-"}
        body == IF signed THEN Tail(s) ELSE s
    IN  IF DecimalOk(body)
        THEN [ok |-> TRUE,
              value |-> IF signed /\ Head(s) = "-" THEN 0 - DecimalValue(body)
                        ELSE DecimalValue(body)]
        ELSE [ok |-> FALSE, value |-> 0]

py_float(text) == py_float_chars(Chars(text))

(***************************************************************************)
(* Validators                                                              *)
(***************************************************************************)
\* inn.isdigit() and len(inn) in [10, 12]
validate_inn(inn) == IsDigits(Chars(inn)) /\ Len(Chars(inn)) \in {10, 12}

\* phone.replace('+7', '8'): every "+7" becomes "8"
RECURSIVE ReplacePlus7(_)
ReplacePlus7(s) ==
    IF s = <<>> THEN <<>>
    ELSE IF Len(s) >= 2 /\ s[1] = "+" /\ s[2] = "7"
         THEN <<"8">> \o ReplacePlus7(SubSeq(s, 3, Len(s)))
    ELSE <<Head(s)>> \o ReplacePlus7(Tail(s))

validate_phone(phone) ==
    LET cleaned == Without(Without(Without(Without(
                       ReplacePlus7(Chars(phone)), " "), "-"), "("), ")")
    IN  IsDigits(cleaned) /\ Len(cleaned) = 11 /\ Head(cleaned) = "8"

\* ^[a-zA-Z0-9._%+-]+@[a-zA-Z0-9.-]+\.[a-zA-Z]{2,}$
validate_email(email) ==
    LET s == Chars(email)
        local == Letters \cup Digits \cup {".", "_", "%", "+", "-"}
        domain == Letters \cup Digits \cup {".", "-"}
    IN  \E at \in 1..Len(s), dot \in 1..Len(s) :
            /\ s[at] = "@" /\ s[dot] = "."
            /\ at > 1 /\ dot > at + 1 /\ Len(s) - dot >= 2
            /\ \A i \in 1..(at - 1) : s[i] \in local
            /\ \A i \in (at + 1)..(dot - 1) : s[i] \in domain
            /\ \A i \in (dot + 1)..Len(s) : s[i] \in Letters

(***************************************************************************)
(* Tyre sizes of v1_bot.  A size is the sequence of its characters.        *)
(***************************************************************************)
\* str.upper(), character by character
upper(s) ==
    [i \in 1..Len(s) |->
        IF \E k \in 1..26 : LowerCase[k] = s[i]
        THEN UpperCase[CHOOSE k \in 1..26 : LowerCase[k] = s[i]]
        ELSE s[i]]

\* re.sub(r'[\.]', '/', size)
sub_dots(s) == [i \in 1..Len(s) |-> IF s[i] = "." THEN "/" ELSE s[i]]

\* how many blanks s begins with
RECURSIVE Blanks(_)
Blanks(s) == IF s # <<>> /\ Head(s) = " " THEN 1 + Blanks(Tail(s)) ELSE 0

\* s without its first n characters
Drop(s, n) == SubSeq(s, n + 1, Len(s))

\* re.sub(r'\s*R\s*', 'R', size): the pattern is tried at each position from
\* the left; where blanks, an R and blanks are found they become one R and the
\* scan goes on behind them, elsewhere one character is copied
RECURSIVE sub_around_R(_)
sub_around_R(s) ==
    IF s = <<>> THEN <<>>
    ELSE LET rest == Drop(s, Blanks(s))
         IN  IF rest # <<>> /\ Head(rest) = "R"
             THEN <<"R">> \o sub_around_R(Drop(Tail(rest), Blanks(Tail(rest))))
             ELSE <<Head(s)>> \o sub_around_R(Tail(s))

\* re.sub(r'\s+', ' ', size)
RECURSIVE sub_blank_runs(_)
sub_blank_runs(s) ==
    IF s = <<>> THEN <<>>
    ELSE IF Head(s) = " " THEN <<" ">> \o sub_blank_runs(Drop(s, Blanks(s)))
    ELSE <<Head(s)>> \o sub_blank_runs(Tail(s))

\* Faulty variant of normalize_tyre_size: the points are left as they are.
normalize_tyre_size_keeps_points(size) ==
    IF size = <<>> THEN <<>>
    ELSE sub_blank_runs(sub_around_R(Strip(upper(size))))

normalize_tyre_size(size) ==
    IF size = <<>> THEN <<>>
    ELSE sub_blank_runs(sub_around_R(sub_dots(Strip(upper(size)))))

\* Python's  sub in s  for strings
contains(s, sub) ==
    \E i \in 0..(Len(s) - Len(sub)) : SubSeq(s, i + 1, i + Len(sub)) = sub

\* Faulty variant of size_matches: only the query is looked for in the stock size.
size_matches_one_way(search_size, stock_size) ==
    LET normalized_search == normalize_tyre_size(search_size)
        normalized_stock == normalize_tyre_size(stock_size)
    IN  IF normalized_search = normalized_stock THEN TRUE
        ELSE IF contains(normalized_stock, normalized_search) THEN TRUE
        ELSE FALSE

size_matches(search_size, stock_size) ==
    LET normalized_search == normalize_tyre_size(search_size)
        normalized_stock == normalize_tyre_size(stock_size)
    IN  IF normalized_search = normalized_stock THEN TRUE
        ELSE IF \/ contains(normalized_stock, normalized_search)
                \/ contains(normalized_search, normalized_stock) THEN TRUE
        ELSE FALSE

(***************************************************************************)
(* RateLimiter.  requests[u] holds, for each recorded request of u, its    *)
(* age now - req_time, saturated at window.                                *)
(***************************************************************************)
Recent(reqs) == SelectSeq(reqs, LAMBDA age : age < window)

\* Faulty variant of is_limited: the threshold is compared with > .
is_limited_one_more(reqs) == Len(Recent(reqs)) > max_requests

\* the value is_limited returns
is_limited(reqs) == Len(Recent(reqs)) >= max_requests

\* the list is_limited leaves behind
after_is_limited(reqs) ==
    IF is_limited(reqs) THEN Recent(reqs) ELSE Append(Recent(reqs), 0)

check_rate_limit(reqs) == is_limited(reqs)

(***************************************************************************)
(* FSM context, store and bookkeeping shared by the three programs         *)
(***************************************************************************)
None == "None"

EmptyData == [k \in {} |-> NoValue]

\* state.update_data(field=value)
update_data(data, field, value) ==
    [k \in DOMAIN data \cup {field} |-> IF k = field THEN value ELSE data[k]]

db == <<users, stock, next_user_id, next_stock_id>>

\* message.from_user.full_name
full_name(u) == IF u = 1 THEN "Anna" ELSE "Boris"

NoRow == [id |-> 0]

\* SELECT ... FROM users WHERE telegram_id = ?  (fetchone)
UserOf(telegram_id) ==
    IF \E r \in users : r.telegram_id = telegram_id
    THEN CHOOSE r \in users : r.telegram_id = telegram_id
    ELSE NoRow

\* SELECT COUNT(*) FROM stock WHERE user_id = ?
get_user_stock_count(user_id) == Cardinality({r \in stock : r.user_id = user_id})

\* no file goes with the reply
NoDocument == [columns |-> <<>>, rows |-> <<>>]

\* no call of send_notifications was made
NoNotifications == <<>>

\* message.answer_document: the reply sent together with a file
Sent(u, h, text, reply, document) ==
    last' = [user |-> u, handler |-> h, text |-> text, reply |-> reply,
             document |-> document, notified |-> NoNotifications]

\* the reply sent for the message just handled
Said(u, h, text, reply) == Sent(u, h, text, reply, NoDocument)

\* is_limited as called for u: the list it leaves behind
Counted(u, reqs) == requests' = [requests EXCEPT ![u] = after_is_limited(reqs)]

\* state.set_state(s): the data is kept
set_state(u, s) == fsm_state' = [fsm_state EXCEPT ![u] = s]

\* Faulty variant of clear: the storage is emptied for every chat.
clear_every_chat(u) ==
    /\ fsm_state' = [v \in Users |-> None]
    /\ fsm_data' = [v \in Users |-> EmptyData]

\* state.clear(): state and data are dropped
clear(u) ==
    /\ fsm_state' = [fsm_state EXCEPT ![u] = None]
    /\ fsm_data' = [fsm_data EXCEPT ![u] = EmptyData]

\* the handler answers and returns without touching state or store
Answer(u, h, text, reply) ==
    /\ Said(u, h, text, reply)
    /\ UNCHANGED <<users, stock, next_user_id, next_stock_id, fsm_state, fsm_data>>

(***************************************************************************)
(* src/en_v1_bot.py                                                        *)
(***************************************************************************)
\* Persistent database found at start-up: empty, or one Dealer account
\* holding two rows of the same SKU and one Buyer account.
en_user(id, role) ==
    [id |-> id, telegram_id |-> id, name |-> full_name(id), company_name |-> "ACME",
     inn |-> "7701234567", phone |-> "+79991234567", email |-> "a@b.ru", role |-> role]

en_item(id, user_id, warehouse) ==
    [id |-> id, user_id |-> user_id, sku |-> "A1", tyre_size |-> "205/55R16",
     tyre_pattern |-> "Ice", brand |-> "Nokian", country |-> "FI",
     qty_available |-> 10, retail_price |-> 450000, wholesale_price |-> 400000,
     warehouse_location |-> warehouse]

en_seed_users(dealer) ==
    {en_user(u, IF u = dealer THEN "Dealer" ELSE "Buyer") : u \in Users}

en_seed_stock(dealer) == {en_item(1, dealer, "MSK-1"), en_item(2, dealer, "SPB-2")}

\* Dispatcher: the handlers in registration order, the first whose filter matches
Route_en(state, text) ==
    IF text = "/cancel" THEN "cancel_handler"
    ELSE IF text = "/start" THEN "cmd_start"
    ELSE IF state = "Registration:waiting_for_role" THEN "process_role"
    ELSE IF state = "Registration:waiting_for_company" THEN "process_company"
    ELSE IF state = "Registration:waiting_for_inn" THEN "process_inn"
    ELSE IF state = "Registration:waiting_for_phone" THEN "process_phone"
    ELSE IF state = "Registration:waiting_for_email" THEN "process_email"
    ELSE IF text = "/addstock" THEN "cmd_addstock"
    ELSE IF state = "AddStock:waiting_for_sku" THEN "process_sku"
    ELSE IF state = "AddStock:waiting_for_size" THEN "process_size"
    ELSE IF state = "AddStock:waiting_for_pattern" THEN "process_pattern"
    ELSE IF state = "AddStock:waiting_for_brand" THEN "process_brand"
    ELSE IF state = "AddStock:waiting_for_country" THEN "process_country"
    ELSE IF state = "AddStock:waiting_for_qty" THEN "process_qty"
    ELSE IF state = "AddStock:waiting_for_retail_price" THEN "process_retail_price"
    ELSE IF state = "AddStock:waiting_for_wholesale_price" THEN "process_wholesale_price"
    ELSE IF state = "AddStock:waiting_for_warehouse" THEN "process_warehouse"
    ELSE IF text = "/mystock" THEN "cmd_mystock"
    ELSE IF text = "/deletestock" THEN "cmd_deletestock"
    ELSE IF state = "DeleteAllStock:confirmation" THEN "process_delete_all_confirmation"
    ELSE IF text = "/deleteitem" THEN "cmd_deleteitem"
    ELSE IF state = "DeleteItem:waiting_for_sku" THEN "process_delete_sku"
    ELSE IF state = "DeleteItem:confirmation" THEN "process_delete_confirmation"
    ELSE IF text = "/search" THEN "cmd_search"
    ELSE IF state = "SearchStock:waiting_for_search_type" THEN "process_search_type"
    ELSE IF state = "SearchStock:waiting_for_search_value" THEN "process_search_value"
    ELSE IF text = "/admin" THEN "cmd_admin"
    ELSE IF text = "/admin_users" THEN "cmd_admin_users"
    ELSE IF text = "/admin_stock" THEN "cmd_admin_stock"
    ELSE IF text = "/admin_stats" THEN "cmd_admin_stats"
    ELSE IF text = "/admin_export" THEN "cmd_admin_export"
    ELSE IF text = "/admin_backup" THEN "cmd_admin_backup"
    ELSE IF text = "/admin_clear_cache" THEN "cmd_admin_clear_cache"
    ELSE IF text = "/admin_sql" THEN "cmd_admin_sql"
    ELSE IF state = "AdminPanel:waiting_for_sql_query" THEN "process_admin_sql"
    ELSE IF text = "/help" THEN "cmd_help"
    ELSE "unknown_command"

\* the texts the sender types while the chat is in a given state
AnswersEn(state) ==
    CASE state = None -> {"hello"}
      [] state = "Registration:waiting_for_role" -> {"Dealer", "Buyer", "/search"}
      [] state = "Registration:waiting_for_company" -> {"ACME"}
      [] state = "Registration:waiting_for_inn" -> {"7701234567", "123456789"}
      [] state = "Registration:waiting_for_phone" -> {"+79991234567", "7701234567"}
      [] state = "Registration:waiting_for_email" -> {"a@b.ru", "not-an-email"}
      [] state = "AddStock:waiting_for_sku" -> {"A1", "/search"}
      [] state = "AddStock:waiting_for_size" -> {"205/55R16"}
      [] state = "AddStock:waiting_for_pattern" -> {"Ice"}
      [] state = "AddStock:waiting_for_brand" -> {"Nokian"}
      [] state = "AddStock:waiting_for_country" -> {"FI"}
      [] state = "AddStock:waiting_for_qty" -> {"10", "0", "abc"}
      [] state = "AddStock:waiting_for_retail_price" ->
            {"4500", "0", "abc", "4500,50", "4 500"}
      [] state = "AddStock:waiting_for_wholesale_price" -> {"4000", "0", "MSK-1"}
      [] state = "DeleteAllStock:confirmation" -> {"Yes", "No", "Maybe"}
      [] state = "DeleteItem:waiting_for_sku" -> {"A1", "ZZ"}
      [] state = "DeleteItem:confirmation" -> {"Yes", "No", "Maybe"}
      [] state = "SearchStock:waiting_for_search_type" -> {"SKU", "All", "Colour"}
      [] state = "SearchStock:waiting_for_search_value" -> {"A1", "ZZ", "Nokian"}
      [] state = "AdminPanel:waiting_for_sql_query" ->
            {"select * from stock", "DELETE FROM stock", "DROP"}
      [] OTHER -> {}

CommandsEn ==
    {"/cancel", "/start", "/addstock", "/deletestock", "/deleteitem", "/search",
     "/admin", "/admin_export", "/admin_backup", "/admin_sql"}

\* the commands that reach their own handler from a state, and the answers
InputsEn(state) ==
    AnswersEn(state) \cup
    {c \in CommandsEn : Route_en(state, c) \in
        {"cancel_handler", "cmd_start", "cmd_addstock", "cmd_deletestock",
         "cmd_deleteitem", "cmd_search", "cmd_admin", "cmd_admin_export",
         "cmd_admin_backup", "cmd_admin_sql"}}

\* every text of InputsEn
TextsEn ==
    {"/cancel", "/start", "/addstock", "/deletestock", "/deleteitem", "/search",
     "hello", "Dealer", "Buyer", "ACME", "7701234567", "123456789", "+79991234567",
     "a@b.ru", "not-an-email", "A1", "ZZ", "205/55R16", "Ice", "Nokian", "FI",
     "10", "0", "abc", "4500", "4000", "MSK-1", "Yes", "No", "Maybe",
     "SKU", "All", "Colour", "/admin", "/admin_export", "/admin_backup",
     "/admin_sql", "select * from stock", "DELETE FROM stock", "DROP",
     "4500,50", "4 500"}

\* the dispatcher hands text, sent by u, to handler h: the handler's own
\* filter matches and no handler registered before it does
Delivered_en(u, text, h, filter) ==
    /\ program = "en"
    /\ u = actor
    /\ filter
    /\ Route_en(fsm_state[u], text) = h
    /\ text \in InputsEn(fsm_state[u])
    /\ UNCHANGED <<program, actor, subscriptions, call, cache>>

\* Faulty variant of en_cancel: the state is looked at and cleared before the
\* limiter is asked.
en_cancel_before_gate(u, h, text, reqs) ==
    /\ Counted(u, reqs)
    /\ UNCHANGED db
    /\ IF fsm_state[u] # None
       THEN clear(u) /\ Said(u, h, text, "cancelled")
       ELSE IF check_rate_limit(reqs)
       THEN Said(u, h, text, "too_many_requests") /\ UNCHANGED <<fsm_state, fsm_data>>
       ELSE Said(u, h, text, "no_active_operations") /\ UNCHANGED <<fsm_state, fsm_data>>

\* cancel_handler, also reached by delegation from a step handler: reqs is
\* the limiter list at the moment cancel_handler is entered
en_cancel(u, h, text, reqs) ==
    /\ Counted(u, reqs)
    /\ UNCHANGED db
    /\ IF check_rate_limit(reqs)
       THEN Said(u, h, text, "too_many_requests") /\ UNCHANGED <<fsm_state, fsm_data>>
       ELSE IF fsm_state[u] = None
       THEN Said(u, h, text, "no_active_operations") /\ UNCHANGED <<fsm_state, fsm_data>>
       ELSE clear(u) /\ Said(u, h, text, "cancelled")

en_cancel_handler(u, text) ==
    /\ Delivered_en(u, text, "cancel_handler", text = "/cancel")
    /\ en_cancel(u, "cancel_handler", text, requests[u])

\* Faulty variant of en_cmd_start: the users table is not looked at, every
\* /start opens the registration.
en_cmd_start_reopens(u, text) ==
    /\ Delivered_en(u, text, "cmd_start", text = "/start")
    /\ Counted(u, requests[u])
    /\ UNCHANGED db
    /\ IF check_rate_limit(requests[u])
       THEN Said(u, "cmd_start", text, "too_many_requests") /\ UNCHANGED <<fsm_state, fsm_data>>
       ELSE /\ set_state(u, "Registration:waiting_for_role")
            /\ Said(u, "cmd_start", text, "choose_role")
            /\ UNCHANGED fsm_data

en_cmd_start(u, text) ==
    /\ Delivered_en(u, text, "cmd_start", text = "/start")
    /\ Counted(u, requests[u])
    /\ UNCHANGED db
    /\ IF check_rate_limit(requests[u])
       THEN Said(u, "cmd_start", text, "too_many_requests") /\ UNCHANGED <<fsm_state, fsm_data>>
       ELSE IF UserOf(u) = NoRow
       THEN /\ set_state(u, "Registration:waiting_for_role")
            /\ Said(u, "cmd_start", text, "choose_role")
            /\ UNCHANGED fsm_data
       ELSE Said(u, "cmd_start", text, "welcome_back") /\ UNCHANGED <<fsm_state, fsm_data>>

\* a step handler: rate gate, the inline cancel branch where the handler has
\* one, validation, then the answer is stored and the next step is set
en_step(u, h, text, delegates, valid, field, value, next, prompt, complaint) ==
    IF check_rate_limit(requests[u])
       THEN Counted(u, requests[u]) /\ Answer(u, h, text, "too_many_requests")
       ELSE IF delegates /\ text = "/cancel"
       THEN en_cancel(u, h, text, after_is_limited(requests[u]))
       ELSE IF ~valid
       THEN Counted(u, requests[u]) /\ Answer(u, h, text, complaint)
       ELSE /\ Counted(u, requests[u])
            /\ fsm_data' = [fsm_data EXCEPT ![u] = update_data(@, field, value)]
            /\ set_state(u, next)
            /\ Said(u, h, text, prompt)
            /\ UNCHANGED db

\* Faulty variant of en_process_role: the account row is written at the role
\* step already, as src/bot.py does.
en_process_role_inserts(u, text) ==
    /\ Delivered_en(u, text, "process_role", fsm_state[u] = "Registration:waiting_for_role")
    /\ Counted(u, requests[u])
    /\ IF check_rate_limit(requests[u])
       THEN Answer(u, "process_role", text, "too_many_requests")
       ELSE IF text \notin {"Dealer", "Buyer"}
       THEN Answer(u, "process_role", text, "choose_role_again")
       ELSE /\ fsm_data' = [fsm_data EXCEPT
                   ![u] = update_data(update_data(@, "role", text), "name", full_name(u))]
            /\ set_state(u, "Registration:waiting_for_company")
            /\ Said(u, "process_role", text, "enter_company")
            /\ users' = users \cup {[id |-> next_user_id, telegram_id |-> u,
                                      name |-> full_name(u), company_name |-> NoValue,
                                      inn |-> NoValue, phone |-> NoValue,
                                      email |-> NoValue, role |-> text]}
            /\ next_user_id' = next_user_id + 1
            /\ UNCHANGED <<stock, next_stock_id>>

en_process_role(u, text) ==
    /\ Delivered_en(u, text, "process_role", fsm_state[u] = "Registration:waiting_for_role")
    /\ Counted(u, requests[u])
    /\ IF check_rate_limit(requests[u])
       THEN Answer(u, "process_role", text, "too_many_requests")
       ELSE IF text \notin {"Dealer", "Buyer"}
       THEN Answer(u, "process_role", text, "choose_role_again")
       ELSE /\ fsm_data' = [fsm_data EXCEPT
                   ![u] = update_data(update_data(@, "role", text), "name", full_name(u))]
            /\ set_state(u, "Registration:waiting_for_company")
            /\ Said(u, "process_role", text, "enter_company")
            /\ UNCHANGED db

en_process_company(u, text) ==
    /\ Delivered_en(u, text, "process_company", fsm_state[u] = "Registration:waiting_for_company")
    /\ en_step(u, "process_company", text, FALSE, TRUE, "company_name", text,
            "Registration:waiting_for_inn", "enter_inn", "-")

en_process_inn(u, text) ==
    /\ Delivered_en(u, text, "process_inn", fsm_state[u] = "Registration:waiting_for_inn")
    /\ en_step(u, "process_inn", text, FALSE, validate_inn(text), "inn", text,
            "Registration:waiting_for_phone", "enter_phone", "invalid_inn")

en_process_phone(u, text) ==
    /\ Delivered_en(u, text, "process_phone", fsm_state[u] = "Registration:waiting_for_phone")
    /\ en_step(u, "process_phone", text, FALSE, validate_phone(text), "phone", text,
            "Registration:waiting_for_email", "enter_email", "invalid_phone")

\* INSERT INTO users ... : the row the final registration step writes
en_new_user(u, data, email) ==
    [id |-> next_user_id, telegram_id |-> u, name |-> data["name"],
     company_name |-> data["company_name"], inn |-> data["inn"],
     phone |-> data["phone"], email |-> email, role |-> data["role"]]

\* the final step of registration; db.execute may raise
en_process_email(u, text) ==
    /\ Delivered_en(u, text, "process_email", fsm_state[u] = "Registration:waiting_for_email")
    /\ Counted(u, requests[u])
    /\ IF check_rate_limit(requests[u])
       THEN Answer(u, "process_email", text, "too_many_requests")
       ELSE IF ~validate_email(text)
       THEN Answer(u, "process_email", text, "invalid_email")
       ELSE \E raised \in IF {"name", "company_name", "inn", "phone", "role"}
                                  \subseteq DOMAIN fsm_data[u]
                            THEN BOOLEAN ELSE {TRUE} :
              /\ IF raised
                 THEN /\ Said(u, "process_email", text, "registration_error")
                      /\ UNCHANGED <<users, next_user_id>>
                 ELSE /\ users' = users \cup {en_new_user(u, fsm_data[u], text)}
                      /\ next_user_id' = next_user_id + 1
                      /\ Said(u, "process_email", text, "registration_completed")
              /\ clear(u)
              /\ UNCHANGED <<stock, next_stock_id>>

en_cmd_addstock(u, text) ==
    /\ Delivered_en(u, text, "cmd_addstock", text = "/addstock")
    /\ Counted(u, requests[u])
    /\ UNCHANGED db
    /\ IF check_rate_limit(requests[u])
       THEN Said(u, "cmd_addstock", text, "too_many_requests") /\ UNCHANGED <<fsm_state, fsm_data>>
       ELSE IF UserOf(u) = NoRow
       THEN Said(u, "cmd_addstock", text, "register_first") /\ UNCHANGED <<fsm_state, fsm_data>>
       ELSE IF UserOf(u).role # "Dealer"
       THEN Said(u, "cmd_addstock", text, "only_dealers") /\ UNCHANGED <<fsm_state, fsm_data>>
       ELSE IF get_user_stock_count(UserOf(u).id) >= MAX_STOCK_ITEMS
       THEN Said(u, "cmd_addstock", text, "limit_reached") /\ UNCHANGED <<fsm_state, fsm_data>>
       ELSE IF fsm_state[u] # None
       THEN Said(u, "cmd_addstock", text, "unfinished_operation") /\ UNCHANGED <<fsm_state, fsm_data>>
       ELSE /\ set_state(u, "AddStock:waiting_for_sku")
            /\ Said(u, "cmd_addstock", text, "enter_sku")
            /\ UNCHANGED fsm_data

en_process_sku(u, text) ==
    /\ Delivered_en(u, text, "process_sku", fsm_state[u] = "AddStock:waiting_for_sku")
    /\ en_step(u, "process_sku", text, TRUE, TRUE, "sku", text,
            "AddStock:waiting_for_size", "enter_size", "-")

en_process_size(u, text) ==
    /\ Delivered_en(u, text, "process_size", fsm_state[u] = "AddStock:waiting_for_size")
    /\ en_step(u, "process_size", text, TRUE, TRUE, "tyre_size", text,
            "AddStock:waiting_for_pattern", "enter_pattern", "-")

en_process_pattern(u, text) ==
    /\ Delivered_en(u, text, "process_pattern", fsm_state[u] = "AddStock:waiting_for_pattern")
    /\ en_step(u, "process_pattern", text, TRUE, TRUE, "tyre_pattern", text,
            "AddStock:waiting_for_brand", "enter_brand", "-")

en_process_brand(u, text) ==
    /\ Delivered_en(u, text, "process_brand", fsm_state[u] = "AddStock:waiting_for_brand")
    /\ en_step(u, "process_brand", text, TRUE, TRUE, "brand", text,
            "AddStock:waiting_for_country", "enter_country", "-")

en_process_country(u, text) ==
    /\ Delivered_en(u, text, "process_country", fsm_state[u] = "AddStock:waiting_for_country")
    /\ en_step(u, "process_country", text, TRUE, TRUE, "country", text,
            "AddStock:waiting_for_qty", "enter_qty", "-")

\* Faulty variant of en_process_qty: the test qty <= 0 is missing.
en_process_qty_unchecked(u, text) ==
    /\ Delivered_en(u, text, "process_qty", fsm_state[u] = "AddStock:waiting_for_qty")
    /\ en_step(u, "process_qty", text, TRUE,
            py_int(text).ok,
            "qty_available", py_int(text).value,
            "AddStock:waiting_for_retail_price", "enter_retail_price",
            "not_a_number")

\* qty = int(message.text); qty <= 0 and ValueError are both refused
en_process_qty(u, text) ==
    /\ Delivered_en(u, text, "process_qty", fsm_state[u] = "AddStock:waiting_for_qty")
    /\ en_step(u, "process_qty", text, TRUE,
            py_int(text).ok /\ py_int(text).value > 0,
            "qty_available", py_int(text).value,
            "AddStock:waiting_for_retail_price", "enter_retail_price",
            IF py_int(text).ok THEN "must_be_positive" ELSE "not_a_number")

en_process_retail_price(u, text) ==
    /\ Delivered_en(u, text, "process_retail_price", fsm_state[u] = "AddStock:waiting_for_retail_price")
    /\ en_step(u, "process_retail_price", text, TRUE,
            py_float(text).ok /\ py_float(text).value > 0,
            "retail_price", py_float(text).value,
            "AddStock:waiting_for_wholesale_price", "enter_wholesale_price",
            IF py_float(text).ok THEN "must_be_positive" ELSE "not_a_number")

\* the handler stores the price and asks for the warehouse; it sets no state
en_process_wholesale_price(u, text) ==
    /\ Delivered_en(u, text, "process_wholesale_price", fsm_state[u] = "AddStock:waiting_for_wholesale_price")
    /\ IF check_rate_limit(requests[u])
       THEN Counted(u, requests[u])
            /\ Answer(u, "process_wholesale_price", text, "too_many_requests")
       ELSE IF text = "/cancel"
       THEN en_cancel(u, "process_wholesale_price", text, after_is_limited(requests[u]))
       ELSE IF ~py_float(text).ok
       THEN Counted(u, requests[u])
            /\ Answer(u, "process_wholesale_price", text, "not_a_number")
       ELSE IF py_float(text).value <= 0
       THEN Counted(u, requests[u])
            /\ Answer(u, "process_wholesale_price", text, "must_be_positive")
       ELSE /\ Counted(u, requests[u])
            /\ fsm_data' = [fsm_data EXCEPT
                   ![u] = update_data(@, "wholesale_price", py_float(text).value)]
            /\ Said(u, "process_wholesale_price", text, "enter_warehouse")
            /\ UNCHANGED <<users, stock, next_user_id, next_stock_id, fsm_state>>

\* the final step of the add-item flow.  No handler sets
\* AddStock.waiting_for_warehouse, so the dispatcher never selects it.
en_process_warehouse(u, text) ==
    /\ Delivered_en(u, text, "process_warehouse", fsm_state[u] = "AddStock:waiting_for_warehouse")
    /\ IF check_rate_limit(requests[u])
       THEN Counted(u, requests[u]) /\ Answer(u, "process_warehouse", text, "too_many_requests")
       ELSE IF text = "/cancel"
       THEN en_cancel(u, "process_warehouse", text, after_is_limited(requests[u]))
       ELSE /\ Counted(u, requests[u])
            /\ clear(u)
            /\ UNCHANGED <<users, next_user_id>>
            /\ \E raised \in IF {"sku", "tyre_size", "tyre_pattern", "brand", "country",
                                 "qty_available", "retail_price", "wholesale_price"}
                                    \subseteq DOMAIN fsm_data[u]
                             THEN BOOLEAN ELSE {TRUE} :
                 IF raised
                 THEN /\ Said(u, "process_warehouse", text, "add_error")
                      /\ UNCHANGED <<stock, next_stock_id>>
                 ELSE IF UserOf(u) = NoRow
                 THEN /\ Said(u, "process_warehouse", text, "user_not_found")
                      /\ UNCHANGED <<stock, next_stock_id>>
                 ELSE /\ stock' = stock \cup
                           {[id |-> next_stock_id, user_id |-> UserOf(u).id,
                             sku |-> fsm_data[u]["sku"],
                             tyre_size |-> fsm_data[u]["tyre_size"],
                             tyre_pattern |-> fsm_data[u]["tyre_pattern"],
                             brand |-> fsm_data[u]["brand"],
                             country |-> fsm_data[u]["country"],
                             qty_available |-> fsm_data[u]["qty_available"],
                             retail_price |-> fsm_data[u]["retail_price"],
                             wholesale_price |-> fsm_data[u]["wholesale_price"],
                             warehouse_location |-> text]}
                      /\ next_stock_id' = next_stock_id + 1
                      /\ Said(u, "process_warehouse", text, "item_added")

en_cmd_deletestock(u, text) ==
    /\ Delivered_en(u, text, "cmd_deletestock", text = "/deletestock")
    /\ Counted(u, requests[u])
    /\ UNCHANGED <<users, stock, next_user_id, next_stock_id, fsm_data>>
    /\ IF check_rate_limit(requests[u])
       THEN Said(u, "cmd_deletestock", text, "too_many_requests") /\ UNCHANGED fsm_state
       ELSE IF UserOf(u) = NoRow
       THEN Said(u, "cmd_deletestock", text, "register_first") /\ UNCHANGED fsm_state
       ELSE IF UserOf(u).role # "Dealer"
       THEN Said(u, "cmd_deletestock", text, "only_dealers") /\ UNCHANGED fsm_state
       ELSE IF get_user_stock_count(UserOf(u).id) = 0
       THEN Said(u, "cmd_deletestock", text, "already_empty") /\ UNCHANGED fsm_state
       ELSE /\ set_state(u, "DeleteAllStock:confirmation")
            /\ Said(u, "cmd_deletestock", text, "confirm_delete_all")

\* Faulty variant of en_confirm: every answer but No is taken for Yes.
en_confirm_any_answer(u, h, text, doomed) ==
    IF check_rate_limit(requests[u])
       THEN Counted(u, requests[u]) /\ Answer(u, h, text, "too_many_requests")
       ELSE IF text = "/cancel"
       THEN en_cancel(u, h, text, after_is_limited(requests[u]))
       ELSE /\ Counted(u, requests[u])
            /\ IF text # "No"
               THEN IF UserOf(u) = NoRow
                    THEN Answer(u, h, text, "handler_error")
                    ELSE \E raised \in BOOLEAN :
                           IF raised
                           THEN Answer(u, h, text, "OperationalError")
                           ELSE /\ stock' = stock \ doomed
                                /\ clear(u)
                                /\ Said(u, h, text, "deleted")
                                /\ UNCHANGED <<users, next_user_id, next_stock_id>>
               ELSE IF text = "No"
               THEN clear(u) /\ Said(u, h, text, "deletion_cancelled") /\ UNCHANGED db
               ELSE Answer(u, h, text, "choose_yes_or_no")

\* a Yes/No step: the deletion on Yes, nothing on No, a re-prompt otherwise.
\* The DELETE stands outside any try: when db.execute raises (the database
\* is locked or gone) the handler ends there, nothing is sent and
\* state.clear() is not reached.
en_confirm(u, h, text, doomed) ==
    IF check_rate_limit(requests[u])
       THEN Counted(u, requests[u]) /\ Answer(u, h, text, "too_many_requests")
       ELSE IF text = "/cancel"
       THEN en_cancel(u, h, text, after_is_limited(requests[u]))
       ELSE /\ Counted(u, requests[u])
            /\ IF text = "Yes"
               THEN IF UserOf(u) = NoRow
                    THEN Answer(u, h, text, "handler_error")
                    ELSE \E raised \in BOOLEAN :
                           IF raised
                           THEN Answer(u, h, text, "OperationalError")
                           ELSE /\ stock' = stock \ doomed
                                /\ clear(u)
                                /\ Said(u, h, text, "deleted")
                                /\ UNCHANGED <<users, next_user_id, next_stock_id>>
               ELSE IF text = "No"
               THEN clear(u) /\ Said(u, h, text, "deletion_cancelled") /\ UNCHANGED db
               ELSE Answer(u, h, text, "choose_yes_or_no")

\* DELETE FROM stock WHERE user_id = ?
en_process_delete_all_confirmation(u, text) ==
    /\ Delivered_en(u, text, "process_delete_all_confirmation", fsm_state[u] = "DeleteAllStock:confirmation")
    /\ en_confirm(u, "process_delete_all_confirmation", text,
               {r \in stock : r.user_id = UserOf(u).id})

en_cmd_deleteitem(u, text) ==
    /\ Delivered_en(u, text, "cmd_deleteitem", text = "/deleteitem")
    /\ Counted(u, requests[u])
    /\ UNCHANGED <<users, stock, next_user_id, next_stock_id, fsm_data>>
    /\ IF check_rate_limit(requests[u])
       THEN Said(u, "cmd_deleteitem", text, "too_many_requests") /\ UNCHANGED fsm_state
       ELSE IF UserOf(u) = NoRow
       THEN Said(u, "cmd_deleteitem", text, "register_first") /\ UNCHANGED fsm_state
       ELSE IF UserOf(u).role # "Dealer"
       THEN Said(u, "cmd_deleteitem", text, "only_dealers") /\ UNCHANGED fsm_state
       ELSE /\ set_state(u, "DeleteItem:waiting_for_sku")
            /\ Said(u, "cmd_deleteitem", text, "enter_sku_to_delete")

\* SELECT * FROM stock WHERE user_id = ? AND sku = ?
en_process_delete_sku(u, text) ==
    /\ Delivered_en(u, text, "process_delete_sku", fsm_state[u] = "DeleteItem:waiting_for_sku")
    /\ en_step(u, "process_delete_sku", text, TRUE,
            \E r \in stock : r.user_id = UserOf(u).id /\ r.sku = text,
            "sku", text, "DeleteItem:confirmation", "confirm_delete", "not_found")

\* DELETE FROM stock WHERE user_id = ? AND sku = ?
en_process_delete_confirmation(u, text) ==
    /\ Delivered_en(u, text, "process_delete_confirmation", fsm_state[u] = "DeleteItem:confirmation")
    /\ en_confirm(u, "process_delete_confirmation", text,
               IF "sku" \in DOMAIN fsm_data[u]
               THEN {r \in stock : r.user_id = UserOf(u).id /\ r.sku = fsm_data[u]["sku"]}
               ELSE {})

\* SQL LIKE '%needle%' on ASCII text: a case-insensitive substring test
Lower(c) ==
    IF \E i \in 1..26 : UpperCase[i] = c
    THEN LowerCase[CHOOSE i \in 1..26 : UpperCase[i] = c]
    ELSE c

Like(value, needle) ==
    LET v == [i \in 1..Len(Chars(value)) |-> Lower(Chars(value)[i])]
        n == [i \in 1..Len(Chars(needle)) |-> Lower(Chars(needle)[i])]
    IN  \E k \in 0..(Len(v) - Len(n)) : SubSeq(v, k + 1, k + Len(n)) = n

\* the rows the search query of en_v1_bot selects for caller u
en_search_rows(u, search_type, search_value) ==
    {r \in stock :
        /\ \E o \in users : o.id = r.user_id /\ o.telegram_id # u
        /\ CASE search_type = "All" -> TRUE
             [] search_type = "SKU" -> Like(r.sku, search_value)
             [] search_type = "Tyre Size" -> Like(r.tyre_size, search_value)
             [] search_type = "Brand" -> Like(r.brand, search_value)
             [] OTHER -> Like(r.warehouse_location, search_value)}

\* ORDER BY s.date DESC: date defaults to the time of the insert, which
\* grows with the row id
RECURSIVE by_date_desc(_)
by_date_desc(rows) ==
    IF rows = {} THEN <<>>
    ELSE LET newest == CHOOSE r \in rows : \A q \in rows : q.id <= r.id
         IN  <<newest>> \o by_date_desc(rows \ {newest})

\* one row of the SELECT: nine columns of stock, three of the owner
en_stock_item(r) ==
    LET o == CHOOSE o \in users : o.id = r.user_id
    IN  <<r.sku, r.tyre_size, r.tyre_pattern, r.brand, r.country,
          r.qty_available, r.retail_price, r.wholesale_price,
          r.warehouse_location, o.company_name, o.phone, o.email>>

\* db.fetchall(query, params) of process_search_value
en_stock_items(u, search_type, search_value) ==
    LET found == by_date_desc(en_search_rows(u, search_type, search_value))
    IN  [i \in 1..Len(found) |-> en_stock_item(found[i])]

BuyerColumns ==
    <<"sku", "tyre_size", "tyre_pattern", "brand", "country", "qty_available",
      "retail_price", "warehouse_location", "company_name">>

AllColumns ==
    <<"sku", "tyre_size", "tyre_pattern", "brand", "country", "qty_available",
      "retail_price", "wholesale_price", "warehouse_location", "company_name",
      "phone", "email">>

\* a call that ends with an exception instead of a value
Raised(exception) == [raised |-> exception]

\* the sheet create_search_excel writes (none for no rows), or the exception
\* it ends with:
\* item[9] of a shorter tuple, or a DataFrame whose rows do not fit twelve
\* columns.  Python counts from 0, sequences here from 1.
create_search_excel_wholesale(stock_items, user_role) ==
    IF stock_items = <<>> THEN NoDocument
    ELSE IF user_role = "Buyer"
    THEN IF \E i \in 1..Len(stock_items) : Len(stock_items[i]) < 10
         THEN Raised("IndexError")
         ELSE [columns |-> BuyerColumns,
               rows |-> [i \in 1..Len(stock_items) |->
                            SubSeq(stock_items[i], 1, 6) \o <<stock_items[i][8]>>
                              \o <<stock_items[i][9]>> \o <<stock_items[i][10]>>]]
    ELSE IF \E i \in 1..Len(stock_items) : Len(stock_items[i]) # Len(AllColumns)
         THEN Raised("ValueError")
         ELSE [columns |-> AllColumns, rows |-> stock_items]

create_search_excel(stock_items, user_role) ==
    IF stock_items = <<>> THEN NoDocument
    ELSE IF user_role = "Buyer"
    THEN IF \E i \in 1..Len(stock_items) : Len(stock_items[i]) < 10
         THEN Raised("IndexError")
         ELSE [columns |-> BuyerColumns,
               rows |-> [i \in 1..Len(stock_items) |->
                            SubSeq(stock_items[i], 1, 6) \o <<stock_items[i][7]>>
                              \o <<stock_items[i][9]>> \o <<stock_items[i][10]>>]]
    ELSE IF \E i \in 1..Len(stock_items) : Len(stock_items[i]) # Len(AllColumns)
         THEN Raised("ValueError")
         ELSE [columns |-> AllColumns, rows |-> stock_items]

\* process_search_value from its try block on: look up, answer, state.clear();
\* an exception of the store is caught like any other and reported
en_search(u, h, text, data) ==
    /\ clear(u)
    /\ UNCHANGED db
    /\ \E raised \in BOOLEAN :
       IF raised \/ "search_type" \notin DOMAIN data \/ UserOf(u) = NoRow
       THEN Said(u, h, text, "search_error")
       ELSE IF en_stock_items(u, data["search_type"], text) = <<>>
       THEN Said(u, h, text, "nothing_found")
       ELSE Sent(u, h, text, "search_results",
                 create_search_excel(en_stock_items(u, data["search_type"], text),
                                     UserOf(u).role))

en_cmd_search(u, text) ==
    /\ Delivered_en(u, text, "cmd_search", text = "/search")
    /\ Counted(u, requests[u])
    /\ UNCHANGED <<users, stock, next_user_id, next_stock_id, fsm_data>>
    /\ IF check_rate_limit(requests[u])
       THEN Said(u, "cmd_search", text, "too_many_requests") /\ UNCHANGED fsm_state
       ELSE IF UserOf(u) = NoRow
       THEN Said(u, "cmd_search", text, "register_first") /\ UNCHANGED fsm_state
       ELSE /\ set_state(u, "SearchStock:waiting_for_search_type")
            /\ Said(u, "cmd_search", text, "choose_search_type")

\* "All" stores the type and calls process_search_value, which passes the
\* rate gate a second time
en_process_search_type(u, text) ==
    /\ Delivered_en(u, text, "process_search_type", fsm_state[u] = "SearchStock:waiting_for_search_type")
    /\ IF check_rate_limit(requests[u])
       THEN Counted(u, requests[u]) /\ Answer(u, "process_search_type", text, "too_many_requests")
       ELSE IF text \notin {"SKU", "Tyre Size", "Brand", "Warehouse", "All"}
       THEN Counted(u, requests[u]) /\ Answer(u, "process_search_type", text, "choose_type_again")
       ELSE IF text # "All"
       THEN /\ Counted(u, requests[u])
            /\ fsm_data' = [fsm_data EXCEPT ![u] = update_data(@, "search_type", text)]
            /\ set_state(u, "SearchStock:waiting_for_search_value")
            /\ Said(u, "process_search_type", text, "enter_search_value")
            /\ UNCHANGED db
       ELSE /\ Counted(u, after_is_limited(requests[u]))
            /\ IF check_rate_limit(after_is_limited(requests[u]))
               THEN /\ fsm_data' = [fsm_data EXCEPT ![u] = update_data(@, "search_type", text)]
                    /\ Said(u, "process_search_type", text, "too_many_requests")
                    /\ UNCHANGED <<users, stock, next_user_id, next_stock_id, fsm_state>>
               ELSE en_search(u, "process_search_type", text,
                              update_data(fsm_data[u], "search_type", text))

en_process_search_value(u, text) ==
    /\ Delivered_en(u, text, "process_search_value", fsm_state[u] = "SearchStock:waiting_for_search_value")
    /\ IF check_rate_limit(requests[u])
       THEN Counted(u, requests[u]) /\ Answer(u, "process_search_value", text, "too_many_requests")
       ELSE IF text = "/cancel"
       THEN en_cancel(u, "process_search_value", text, after_is_limited(requests[u]))
       ELSE Counted(u, requests[u]) /\ en_search(u, "process_search_value", text, fsm_data[u])

\* an admin command of en_v1_bot without a conversation: rate gate, admin
\* check, then the operation, whose failure is caught and reported
en_admin_command(u, h, text, done, failed) ==
    /\ Counted(u, requests[u])
    /\ IF check_rate_limit(requests[u])
       THEN Answer(u, h, text, "too_many_requests")
       ELSE IF ~is_admin(u)
       THEN Answer(u, h, text, "access_denied")
       ELSE \E raised \in BOOLEAN :
              Answer(u, h, text, IF raised THEN failed ELSE done)

en_cmd_admin(u, text) ==
    /\ Delivered_en(u, text, "cmd_admin", text = "/admin")
    /\ Counted(u, requests[u])
    /\ IF check_rate_limit(requests[u])
       THEN Answer(u, "cmd_admin", text, "too_many_requests")
       ELSE IF ~is_admin(u)
       THEN Answer(u, "cmd_admin", text, "access_denied")
       ELSE Answer(u, "cmd_admin", text, "admin_panel")

\* SELECT * FROM users, SELECT * FROM stock, written to a workbook and sent
en_cmd_admin_export(u, text) ==
    /\ Delivered_en(u, text, "cmd_admin_export", text = "/admin_export")
    /\ en_admin_command(u, "cmd_admin_export", text, "full_export", "export_error")

\* shutil.copy2(DB_PATH, backup_filename), sent as a document
en_cmd_admin_backup(u, text) ==
    /\ Delivered_en(u, text, "cmd_admin_backup", text = "/admin_backup")
    /\ en_admin_command(u, "cmd_admin_backup", text, "backup_created", "backup_error")

\* Faulty variant of en_cmd_admin_sql: the admin list is not consulted.
en_cmd_admin_sql_open(u, text) ==
    /\ Delivered_en(u, text, "cmd_admin_sql", text = "/admin_sql")
    /\ Counted(u, requests[u])
    /\ UNCHANGED <<users, stock, next_user_id, next_stock_id, fsm_data>>
    /\ IF check_rate_limit(requests[u])
       THEN Said(u, "cmd_admin_sql", text, "too_many_requests") /\ UNCHANGED fsm_state
       ELSE /\ set_state(u, "AdminPanel:waiting_for_sql_query")
            /\ Said(u, "cmd_admin_sql", text, "enter_sql")

en_cmd_admin_sql(u, text) ==
    /\ Delivered_en(u, text, "cmd_admin_sql", text = "/admin_sql")
    /\ Counted(u, requests[u])
    /\ UNCHANGED <<users, stock, next_user_id, next_stock_id, fsm_data>>
    /\ IF check_rate_limit(requests[u])
       THEN Said(u, "cmd_admin_sql", text, "too_many_requests") /\ UNCHANGED fsm_state
       ELSE IF ~is_admin(u)
       THEN Said(u, "cmd_admin_sql", text, "access_denied") /\ UNCHANGED fsm_state
       ELSE /\ set_state(u, "AdminPanel:waiting_for_sql_query")
            /\ Said(u, "cmd_admin_sql", text, "enter_sql")

\* query.lower().startswith('select')
sql_is_select(text) ==
    LET q == [i \in 1..Len(Chars(text)) |-> Lower(Chars(text)[i])]
    IN  Len(q) >= 6 /\ SubSeq(q, 1, 6) = <<"s", "e", "l", "e", "c", "t">>

\* the statements sqlite accepts among the texts an admin types
sql_is_valid(text) == text \in {"select * from stock", "DELETE FROM stock"}

\* the raw statement is run as typed: a SELECT is fetched, anything else is
\* executed and committed; an error of sqlite is reported; the state is
\* cleared on every path
en_process_admin_sql(u, text) ==
    /\ Delivered_en(u, text, "process_admin_sql",
                    fsm_state[u] = "AdminPanel:waiting_for_sql_query")
    /\ IF check_rate_limit(requests[u])
       THEN Counted(u, requests[u]) /\ Answer(u, "process_admin_sql", text, "too_many_requests")
       ELSE IF text = "/cancel"
       THEN en_cancel(u, "process_admin_sql", text, after_is_limited(requests[u]))
       ELSE /\ Counted(u, requests[u])
            /\ clear(u)
            /\ UNCHANGED <<users, next_user_id, next_stock_id>>
            /\ IF ~sql_is_valid(text)
               THEN Said(u, "process_admin_sql", text, "sql_error") /\ UNCHANGED stock
               ELSE IF sql_is_select(text)
               THEN /\ Said(u, "process_admin_sql", text,
                            IF stock = {} THEN "sql_no_results" ELSE "sql_result")
                    /\ UNCHANGED stock
               ELSE /\ stock' = {}
                    /\ Said(u, "process_admin_sql", text, "sql_executed")

en_unknown_command(u, text) ==
    /\ Delivered_en(u, text, "unknown_command", TRUE)
    /\ Counted(u, requests[u])
    /\ IF check_rate_limit(requests[u])
       THEN Answer(u, "unknown_command", text, "too_many_requests")
       ELSE Answer(u, "unknown_command", text, "unknown_command")

(***************************************************************************)
(* Environment                                                             *)
(***************************************************************************)
\* Cache(timeout=300)
timeout == 300

\* Cache() as constructed: no key
EmptyCache == [k \in {} |-> NoValue]

\* time.time() has moved on by dt seconds: every entry is dt older (an age
\* is kept up to timeout, beyond which Cache.get drops the entry)
aged(entries, dt) ==
    [k \in DOMAIN entries |->
        [entries[k] EXCEPT !.age = IF @ + dt > timeout THEN timeout ELSE @ + dt]]

\* A whole window passes without a message: every recorded request is now
\* at least window seconds old.
Tick ==
    /\ \E u \in Users : Recent(requests[u]) # <<>>
    /\ requests' = [u \in Users |-> [i \in 1..Len(requests[u]) |-> window]]
    /\ cache' = aged(cache, window)
    /\ last' = [user |-> 0, handler |-> "tick", text |-> NoValue, reply |-> NoValue,
             document |-> NoDocument, notified |-> NoNotifications]
    /\ UNCHANGED <<program, users, stock, next_user_id, next_stock_id,
                   fsm_state, fsm_data, subscriptions, actor, call>>

\* the seconds that pass between two messages when less than a window passes
TimeSteps == {20, 40}

\* time.time() moves on by dt seconds: every recorded request is dt older
\* (an age is kept up to window, beyond which is_limited drops the entry)
Elapse ==
    /\ \E u \in Users : Recent(requests[u]) # <<>>
    /\ \E dt \in TimeSteps :
          requests' = [u \in Users |->
                          [i \in 1..Len(requests[u]) |->
                              IF requests[u][i] + dt > window THEN window
                              ELSE requests[u][i] + dt]]
          /\ cache' = aged(cache, dt)
    /\ last' = [user |-> 0, handler |-> "tick", text |-> NoValue, reply |-> NoValue,
             document |-> NoDocument, notified |-> NoNotifications]
    /\ UNCHANGED <<program, users, stock, next_user_id, next_stock_id,
                   fsm_state, fsm_data, subscriptions, actor, call>>

\* no helper function has been called on its own
NoCall == [function |-> "-", args |-> <<>>, done |-> FALSE, result |-> FALSE]

InitCommon ==
    /\ call = NoCall
    /\ cache = EmptyCache
    /\ fsm_state = [u \in Users |-> None]
    /\ fsm_data = [u \in Users |-> EmptyData]
    /\ requests = [u \in Users |-> <<>>]
    /\ actor \in Users
    /\ last = [user |-> 0, handler |-> "start_polling", text |-> NoValue, reply |-> NoValue,
             document |-> NoDocument, notified |-> NoNotifications]

InitEn ==
    /\ program = "en"
    /\ InitCommon
    /\ subscriptions = {}
    /\ \/ /\ users = {} /\ stock = {}
          /\ next_user_id = 1 /\ next_stock_id = 1
       \/ \E dealer \in Users :
             /\ users = en_seed_users(dealer) /\ stock = en_seed_stock(dealer)
             /\ next_user_id = 3 /\ next_stock_id = 3

NextEn ==
    \E text \in TextsEn :
          \/ en_cancel_handler(actor, text)
          \/ en_cmd_start(actor, text)
          \/ en_process_role(actor, text)
          \/ en_process_company(actor, text)
          \/ en_process_inn(actor, text)
          \/ en_process_phone(actor, text)
          \/ en_process_email(actor, text)
          \/ en_cmd_addstock(actor, text)
          \/ en_process_sku(actor, text)
          \/ en_process_size(actor, text)
          \/ en_process_pattern(actor, text)
          \/ en_process_brand(actor, text)
          \/ en_process_country(actor, text)
          \/ en_process_qty(actor, text)
          \/ en_process_retail_price(actor, text)
          \/ en_process_wholesale_price(actor, text)
          \/ en_cmd_deletestock(actor, text)
          \/ en_process_delete_all_confirmation(actor, text)
          \/ en_cmd_deleteitem(actor, text)
          \/ en_process_delete_sku(actor, text)
          \/ en_process_delete_confirmation(actor, text)
          \/ en_cmd_search(actor, text)
          \/ en_process_search_type(actor, text)
          \/ en_process_search_value(actor, text)
          \/ en_cmd_admin(actor, text)
          \/ en_cmd_admin_export(actor, text)
          \/ en_cmd_admin_backup(actor, text)
          \/ en_cmd_admin_sql(actor, text)
          \/ en_process_admin_sql(actor, text)
          \/ en_unknown_command(actor, text)

SpecEn == InitEn /\ [][NextEn \/ Tick]_vars

\* The rate limiter of en_v1_bot on its own: an idle chat sends messages
\* whose handlers ask is_limited once, while time passes in steps shorter
\* than the window.
NextLimiter ==
    \E text \in TextsEn :
          \/ en_cancel_handler(actor, text)
          \/ en_unknown_command(actor, text)

SpecLimiter == InitEn /\ [][NextLimiter \/ Elapse]_vars

\* Polling delivers the next update from another chat.
NextSender ==
    /\ actor' \in Users \ {actor}
    /\ UNCHANGED <<program, users, stock, next_user_id, next_stock_id,
                   fsm_state, fsm_data, requests, subscriptions, call, cache, last>>

\* Two chats of en_v1_bot at once: the search dialogue and cancel, with the
\* updates of the two senders interleaved in any order.
NextShared ==
    \E text \in TextsEn :
          \/ en_cancel_handler(actor, text)
          \/ en_cmd_search(actor, text)
          \/ en_process_search_type(actor, text)
          \/ en_process_search_value(actor, text)

SpecShared == InitEn /\ [][NextShared \/ NextSender]_vars

\* Cache.get(key): the data of an entry younger than timeout, else nothing
cache_get(key) ==
    IF key \in DOMAIN cache /\ cache[key].age < timeout THEN cache[key] ELSE NoRow

\* the cache as Cache.get(key) leaves it: an entry found too old is deleted
after_cache_get(key) ==
    IF key \in DOMAIN cache /\ cache[key].age >= timeout
    THEN [k \in DOMAIN cache \ {key} |-> cache[k]]
    ELSE cache

\* Cache.set(key, data)
cache_set(entries, key, document) ==
    [k \in DOMAIN entries \cup {key} |->
        IF k = key
        THEN [id |-> key, document |-> document, stock_count |-> Len(document.rows),
              age |-> 0]
        ELSE entries[k]]

MyStockColumns ==
    <<"sku", "tyre_size", "tyre_pattern", "brand", "country", "qty_available",
      "retail_price", "wholesale_price", "warehouse_location", "date">>

\* the workbook cmd_mystock writes: the rows of user_id, newest first (the
\* date of a row is told by its id, which grows with it)
mystock_document(user_id) ==
    LET found == by_date_desc({r \in stock : r.user_id = user_id})
    IN  [columns |-> MyStockColumns,
         rows |-> [i \in 1..Len(found) |->
                      <<found[i].sku, found[i].tyre_size, found[i].tyre_pattern,
                        found[i].brand, found[i].country, found[i].qty_available,
                        found[i].retail_price, found[i].wholesale_price,
                        found[i].warehouse_location, found[i].id>>]]

\* the dispatcher hands text to a handler that touches the cache
Cached_en(u, text, h) ==
    /\ program = "en"
    /\ u = actor
    /\ Route_en(fsm_state[u], text) = h
    /\ UNCHANGED <<program, actor, subscriptions, call>>

\* cmd_mystock: the workbook kept under mystock_<user_id> is sent again while
\* the entry is younger than timeout; nothing but cmd_admin_clear_cache
\* removes an entry earlier
en_cmd_mystock(u, text) ==
    /\ Cached_en(u, text, "cmd_mystock")
    /\ Counted(u, requests[u])
    /\ IF check_rate_limit(requests[u])
       THEN Answer(u, "cmd_mystock", text, "too_many_requests") /\ UNCHANGED cache
       ELSE IF UserOf(u) = NoRow
       THEN Answer(u, "cmd_mystock", text, "register_first") /\ UNCHANGED cache
       ELSE IF UserOf(u).role # "Dealer"
       THEN Answer(u, "cmd_mystock", text, "only_dealers") /\ UNCHANGED cache
       ELSE /\ UNCHANGED <<users, stock, next_user_id, next_stock_id, fsm_state, fsm_data>>
            /\ IF cache_get(UserOf(u).id) # NoRow
               THEN /\ Sent(u, "cmd_mystock", text, "your_stock_cache",
                            cache_get(UserOf(u).id).document)
                    /\ UNCHANGED cache
               ELSE IF get_user_stock_count(UserOf(u).id) = 0
               THEN /\ Said(u, "cmd_mystock", text, "stock_empty")
                    /\ cache' = after_cache_get(UserOf(u).id)
               ELSE /\ Sent(u, "cmd_mystock", text, "your_stock",
                            mystock_document(UserOf(u).id))
                    /\ cache' = cache_set(after_cache_get(UserOf(u).id), UserOf(u).id,
                                          mystock_document(UserOf(u).id))

\* cmd_admin_clear_cache: cache.clear() for an admin
en_cmd_admin_clear_cache(u, text) ==
    /\ Cached_en(u, text, "cmd_admin_clear_cache")
    /\ Counted(u, requests[u])
    /\ IF check_rate_limit(requests[u])
       THEN Answer(u, "cmd_admin_clear_cache", text, "too_many_requests") /\ UNCHANGED cache
       ELSE IF ~is_admin(u)
       THEN Answer(u, "cmd_admin_clear_cache", text, "access_denied") /\ UNCHANGED cache
       ELSE Answer(u, "cmd_admin_clear_cache", text, "cache_cleared") /\ cache' = EmptyCache

\* en_v1_bot with /mystock: the export, the two deletions and cancel
NextCache ==
    \E text \in TextsEn \cup {"/mystock", "/admin_clear_cache"} :
          \/ en_cmd_mystock(actor, text)
          \/ en_cmd_admin_clear_cache(actor, text)
          \/ en_cancel_handler(actor, text)
          \/ en_cmd_deletestock(actor, text)
          \/ en_process_delete_all_confirmation(actor, text)
          \/ en_cmd_deleteitem(actor, text)
          \/ en_process_delete_sku(actor, text)
          \/ en_process_delete_confirmation(actor, text)

SpecCache == InitEn /\ [][NextCache \/ Tick]_vars

(***************************************************************************)
(* src/v1_bot.py.  Its Russian button and role texts are written in Latin  *)
(* letters: "Diler", "Pokupatel", "Otmena" (the cancel button), "Da" and   *)
(* "Net" (the confirmation buttons), "Zagruzit Excel" (the upload button), *)
(* "Udalit ves sklad" (the delete-all button).  A document message is a    *)
(* text of the form "doc:<file name>"; its message.text is None.           *)
(*                                                                         *)
(* v1_bot.py calls get_cancel_keyboard, get_subscription_keyboard,         *)
(* get_delete_selection_keyboard, get_admin_keyboard, send_notifications   *)
(* and create_search_excel, and defines none of them.  A handler that      *)
(* reaches such a call raises NameError: the reply whose keyboard it was   *)
(* building is not sent and the set_state that follows is not executed.    *)
(* cmd_addstock, cmd_search and cmd_upload_excel end this way, so the      *)
(* states AddStock.*, SearchStock.* and UploadExcel.* are never entered    *)
(* and the handlers bound to them never run.                               *)
(***************************************************************************)
v1_user(id, role) ==
    [id |-> id, telegram_id |-> id, name |-> full_name(id), company_name |-> "ACME",
     inn |-> "7701234567", phone |-> "+79991234567", email |-> "a@b.ru", role |-> role]

v1_seed_users(dealer) ==
    {v1_user(u, IF u = dealer THEN "Diler" ELSE "Pokupatel") : u \in Users}

v1_seed_stock(dealer) == {en_item(1, dealer, "MSK-1")}

IsDocument(text) == text \in {"doc:stock.xlsx", "doc:zero.xlsx", "doc:notes.txt"}

\* file_name.lower().endswith(('.xlsx', '.xls'))
IsExcelName(text) == text \in {"doc:stock.xlsx", "doc:zero.xlsx"}

\* the rows pd.read_excel finds in the uploaded workbook
ExcelRows(text) ==
    <<[sku |-> "B7", tyre_size |-> "195/65R15", tyre_pattern |-> "Primacy",
       brand |-> "Michelin", country |-> "FR", qty_available |-> 4,
       retail_price |-> 390000, wholesale_price |-> 350000,
       warehouse_location |-> "SPB-2"]>>

\* message.text.strip() on the texts that carry blanks
strip(text) == IF text = " a@b.ru " THEN "a@b.ru" ELSE text

\* Dispatcher of v1_bot: the handlers in registration order
Route_v1(state, text) ==
    IF text = "Zagruzit Excel" THEN "cmd_upload_excel"
    ELSE IF IsDocument(text) \/ state = "UploadExcel:waiting_for_file"
         THEN "process_excel_upload"
    ELSE IF text \in {"/cancel", "Otmena"} THEN "cancel_handler"
    ELSE IF text \in {"/start", "Glavnoe menyu"} THEN "cmd_start"
    ELSE IF text \in {"/help", "Pomosch"} THEN "cmd_help"
    ELSE IF text \in {"/profile", "Profil"} THEN "cmd_profile"
    ELSE IF text \in {"/mystock", "Moy sklad"} THEN "cmd_my_stock"
    ELSE IF text \in {"/search", "Poisk"} THEN "cmd_search"
    ELSE IF state = "SearchStock:waiting_for_search_value" THEN "process_smart_search"
    ELSE IF text = "Udalit tovar" THEN "cmd_delete_item"
    ELSE IF state = "DeleteItem:waiting_for_search_term" THEN "process_delete_search"
    ELSE IF state = "DeleteItem:waiting_for_selection" THEN "process_delete_selection"
    ELSE IF state = "DeleteItem:confirmation" THEN "process_delete_confirmation"
    ELSE IF text = "Udalit ves sklad" THEN "cmd_delete_all_stock"
    ELSE IF state = "DeleteAllStock:confirmation" THEN "process_delete_all_confirmation"
    ELSE IF text \in {"/subscriptions", "Uvedomleniya"} THEN "cmd_subscriptions"
    ELSE IF state = "SubscriptionState:waiting_for_type" THEN "process_subscription_type"
    ELSE IF state = "SubscriptionState:waiting_for_value" THEN "process_subscription_value"
    ELSE IF text \in {"/addstock", "Dobavit tovar"} THEN "cmd_addstock"
    ELSE IF state = "AddStock:waiting_for_sku" THEN "process_sku"
    ELSE IF state = "AddStock:waiting_for_size" THEN "process_size"
    ELSE IF state = "AddStock:waiting_for_pattern" THEN "process_pattern"
    ELSE IF state = "AddStock:waiting_for_brand" THEN "process_brand"
    ELSE IF state = "AddStock:waiting_for_country" THEN "process_country"
    ELSE IF state = "AddStock:waiting_for_qty" THEN "process_qty"
    ELSE IF state = "AddStock:waiting_for_retail_price" THEN "process_retail_price"
    ELSE IF state = "AddStock:waiting_for_wholesale_price" THEN "process_wholesale_price"
    ELSE IF state = "AddStock:waiting_for_warehouse" THEN "process_warehouse"
    ELSE IF text \in {"/admin", "Admin"} THEN "cmd_admin"
    ELSE IF text = "Polzovateli" THEN "cmd_admin_users"
    ELSE IF text = "Statistika" THEN "cmd_admin_stats"
    ELSE IF text = "Eksport" THEN "cmd_admin_export"
    ELSE IF text = "Bekap" THEN "cmd_admin_backup"
    ELSE IF text = "SQL" THEN "cmd_admin_sql"
    ELSE IF state = "AdminPanel:waiting_for_sql_query" THEN "process_sql_query"
    ELSE IF state = "AdminPanel:confirmation" THEN "process_sql_confirmation"
    ELSE IF text = "Nastroyki" THEN "cmd_admin_settings"
    ELSE IF state = "Registration:waiting_for_role" THEN "process_role"
    ELSE IF state = "Registration:waiting_for_company" THEN "process_company"
    ELSE IF state = "Registration:waiting_for_inn" THEN "process_inn"
    ELSE IF state = "Registration:waiting_for_phone" THEN "process_phone"
    ELSE IF state = "Registration:waiting_for_email" THEN "process_email"
    ELSE "unknown_message"

AnswersV1(state) ==
    CASE state = None -> {"hello"}
      [] state = "Registration:waiting_for_role" -> {"Diler", "Pokupatel", "Dealer"}
      [] state = "Registration:waiting_for_company" -> {"ACME"}
      [] state = "Registration:waiting_for_inn" -> {"7701234567", "123456789"}
      [] state = "Registration:waiting_for_phone" -> {"+79991234567", "7701234567"}
      [] state = "Registration:waiting_for_email" -> {" a@b.ru ", "not-an-email"}
      [] state = "DeleteAllStock:confirmation" -> {"Da", "Net", "Maybe"}
      [] OTHER -> {}

CommandsV1 ==
    {"/cancel", "Otmena", "/start", "/addstock", "/search", "Zagruzit Excel",
     "Udalit ves sklad", "doc:stock.xlsx", "doc:notes.txt",
     "/admin", "Polzovateli", "Eksport", "Bekap", "SQL", "/subscriptions"}

InputsV1(state) ==
    AnswersV1(state) \cup
    {c \in CommandsV1 : Route_v1(state, c) \in
        {"cancel_handler", "cmd_start", "cmd_addstock", "cmd_search",
         "cmd_upload_excel", "cmd_delete_all_stock", "process_excel_upload",
         "cmd_admin", "cmd_admin_users", "cmd_admin_export", "cmd_admin_backup",
         "cmd_admin_sql", "cmd_subscriptions"}}

\* every text of InputsV1
TextsV1 ==
    {"/cancel", "Otmena", "/start", "/addstock", "/search", "Zagruzit Excel",
     "Udalit ves sklad", "doc:stock.xlsx", "doc:notes.txt", "hello", "Diler",
     "Pokupatel", "Dealer", "ACME", "7701234567", "123456789", "+79991234567",
     " a@b.ru ", "not-an-email", "Da", "Net", "Maybe",
     "/admin", "Polzovateli", "Eksport", "Bekap", "SQL", "/subscriptions"}

Delivered_v1(u, text, h, filter) ==
    /\ program = "v1"
    /\ u = actor
    /\ filter
    /\ Route_v1(fsm_state[u], text) = h
    /\ text \in InputsV1(fsm_state[u])
    /\ UNCHANGED <<program, actor, subscriptions, call, cache>>

\* the handler raises NameError while it builds its reply: nothing is sent,
\* nothing after the call is executed
raises_NameError(u, h, text) == Answer(u, h, text, "NameError")

\* cancel_handler of v1_bot, entered with limiter list reqs
v1_cancel(u, h, text, reqs) ==
    /\ Counted(u, reqs)
    /\ UNCHANGED db
    /\ IF check_rate_limit(reqs)
       THEN Said(u, h, text, "too_many_requests") /\ UNCHANGED <<fsm_state, fsm_data>>
       ELSE IF fsm_state[u] = None
       THEN Said(u, h, text, "no_active_operations") /\ UNCHANGED <<fsm_state, fsm_data>>
       ELSE clear(u) /\ Said(u, h, text, "cancelled")

v1_cancel_handler(u, text) ==
    /\ Delivered_v1(u, text, "cancel_handler", text \in {"/cancel", "Otmena"})
    /\ v1_cancel(u, "cancel_handler", text, requests[u])

v1_cmd_start(u, text) ==
    /\ Delivered_v1(u, text, "cmd_start", text \in {"/start", "Glavnoe menyu"})
    /\ Counted(u, requests[u])
    /\ UNCHANGED db
    /\ IF check_rate_limit(requests[u])
       THEN Said(u, "cmd_start", text, "too_many_requests") /\ UNCHANGED <<fsm_state, fsm_data>>
       ELSE IF UserOf(u) = NoRow
       THEN /\ set_state(u, "Registration:waiting_for_role")
            /\ Said(u, "cmd_start", text, "choose_role")
            /\ UNCHANGED fsm_data
       ELSE Said(u, "cmd_start", text, "welcome_back") /\ UNCHANGED <<fsm_state, fsm_data>>

\* a registration step of v1_bot: rate gate, validation, then the answer is
\* stored and the next step is set
v1_step(u, h, text, valid, field, value, next, prompt, complaint) ==
    /\ Counted(u, requests[u])
    /\ IF check_rate_limit(requests[u])
       THEN Answer(u, h, text, "too_many_requests")
       ELSE IF ~valid
       THEN Answer(u, h, text, complaint)
       ELSE /\ fsm_data' = [fsm_data EXCEPT ![u] = update_data(@, field, value)]
            /\ set_state(u, next)
            /\ Said(u, h, text, prompt)
            /\ UNCHANGED db

v1_process_role(u, text) ==
    /\ Delivered_v1(u, text, "process_role", fsm_state[u] = "Registration:waiting_for_role")
    /\ Counted(u, requests[u])
    /\ IF check_rate_limit(requests[u])
       THEN Answer(u, "process_role", text, "too_many_requests")
       ELSE IF text \notin {"Diler", "Pokupatel"}
       THEN Answer(u, "process_role", text, "choose_role_again")
       ELSE /\ fsm_data' = [fsm_data EXCEPT
                   ![u] = update_data(update_data(@, "role", text), "name", full_name(u))]
            /\ set_state(u, "Registration:waiting_for_company")
            /\ Said(u, "process_role", text, "enter_company")
            /\ UNCHANGED db

v1_process_company(u, text) ==
    /\ Delivered_v1(u, text, "process_company", fsm_state[u] = "Registration:waiting_for_company")
    /\ v1_step(u, "process_company", text, TRUE, "company_name", text,
               "Registration:waiting_for_inn", "enter_inn", "-")

v1_process_inn(u, text) ==
    /\ Delivered_v1(u, text, "process_inn", fsm_state[u] = "Registration:waiting_for_inn")
    /\ v1_step(u, "process_inn", text, validate_inn(strip(text)), "inn", strip(text),
               "Registration:waiting_for_phone", "enter_phone", "invalid_inn")

v1_process_phone(u, text) ==
    /\ Delivered_v1(u, text, "process_phone", fsm_state[u] = "Registration:waiting_for_phone")
    /\ v1_step(u, "process_phone", text, validate_phone(strip(text)), "phone",
               strip(text), "Registration:waiting_for_email", "enter_email", "invalid_phone")

\* Faulty variant of v1_process_email: state.clear() sits inside the try
\* block, so a failed insert leaves the conversation open.
v1_process_email_keeps_state(u, text) ==
    /\ Delivered_v1(u, text, "process_email", fsm_state[u] = "Registration:waiting_for_email")
    /\ Counted(u, requests[u])
    /\ IF check_rate_limit(requests[u])
       THEN Answer(u, "process_email", text, "too_many_requests")
       ELSE IF ~validate_email(strip(text))
       THEN Answer(u, "process_email", text, "invalid_email")
       ELSE \E raised \in IF {"name", "company_name", "inn", "phone", "role"}
                                  \subseteq DOMAIN fsm_data[u]
                            THEN BOOLEAN ELSE {TRUE} :
              /\ IF raised
                 THEN /\ Said(u, "process_email", text, "registration_error")
                      /\ UNCHANGED <<users, next_user_id, fsm_state, fsm_data>>
                 ELSE /\ users' = users \cup {en_new_user(u, fsm_data[u], strip(text))}
                      /\ next_user_id' = next_user_id + 1
                      /\ Said(u, "process_email", text, "registration_completed")
                      /\ clear(u)
              /\ UNCHANGED <<stock, next_stock_id>>

\* the final step of registration; db.execute may raise
v1_process_email(u, text) ==
    /\ Delivered_v1(u, text, "process_email", fsm_state[u] = "Registration:waiting_for_email")
    /\ Counted(u, requests[u])
    /\ IF check_rate_limit(requests[u])
       THEN Answer(u, "process_email", text, "too_many_requests")
       ELSE IF ~validate_email(strip(text))
       THEN Answer(u, "process_email", text, "invalid_email")
       ELSE \E raised \in IF {"name", "company_name", "inn", "phone", "role"}
                                  \subseteq DOMAIN fsm_data[u]
                            THEN BOOLEAN ELSE {TRUE} :
              /\ IF raised
                 THEN /\ Said(u, "process_email", text, "registration_error")
                      /\ UNCHANGED <<users, next_user_id>>
                 ELSE /\ users' = users \cup {en_new_user(u, fsm_data[u], strip(text))}
                      /\ next_user_id' = next_user_id + 1
                      /\ Said(u, "process_email", text, "registration_completed")
              /\ clear(u)
              /\ UNCHANGED <<stock, next_stock_id>>

\* the flow is never opened: the reply that asks for the SKU is built with
\* get_cancel_keyboard()
v1_cmd_addstock(u, text) ==
    /\ Delivered_v1(u, text, "cmd_addstock", text \in {"/addstock", "Dobavit tovar"})
    /\ Counted(u, requests[u])
    /\ IF check_rate_limit(requests[u])
       THEN Answer(u, "cmd_addstock", text, "too_many_requests")
       ELSE IF UserOf(u) = NoRow
       THEN Answer(u, "cmd_addstock", text, "register_first")
       ELSE IF UserOf(u).role # "Diler"
       THEN Answer(u, "cmd_addstock", text, "only_dealers")
       ELSE IF get_user_stock_count(UserOf(u).id) >= MAX_STOCK_ITEMS
       THEN Answer(u, "cmd_addstock", text, "limit_reached")
       ELSE IF fsm_state[u] # None
       THEN Answer(u, "cmd_addstock", text, "unfinished_operation")
       ELSE raises_NameError(u, "cmd_addstock", text)

\* the upload state is never set: the reply is built with get_cancel_keyboard()
v1_cmd_upload_excel(u, text) ==
    /\ Delivered_v1(u, text, "cmd_upload_excel", text = "Zagruzit Excel")
    /\ Counted(u, requests[u])
    /\ IF check_rate_limit(requests[u])
       THEN Answer(u, "cmd_upload_excel", text, "too_many_requests")
       ELSE IF UserOf(u) = NoRow
       THEN Answer(u, "cmd_upload_excel", text, "register_first")
       ELSE IF UserOf(u).role # "Diler" /\ ~is_admin(u)
       THEN Answer(u, "cmd_upload_excel", text, "only_dealers")
       ELSE raises_NameError(u, "cmd_upload_excel", text)

\* the row loop of process_excel_file: each row is inserted unless the
\* owner already holds MAX_STOCK_ITEMS rows, which ends the loop
RECURSIVE v1_excel_rows_one_over(_, _, _, _)
v1_excel_rows_one_over(rows, user_id, table, next_id) ==
    IF rows = <<>> \/ Cardinality({r \in table : r.user_id = user_id}) > MAX_STOCK_ITEMS
    THEN [stock |-> table, next_id |-> next_id]
    ELSE LET row == Head(rows)
             item == [id |-> next_id, user_id |-> user_id, sku |-> row.sku,
                      tyre_size |-> row.tyre_size, tyre_pattern |-> row.tyre_pattern,
                      brand |-> row.brand, country |-> row.country,
                      qty_available |-> IF row.qty_available <= 0 THEN 1
                                        ELSE row.qty_available,
                      retail_price |-> IF row.retail_price < 0 THEN 0
                                       ELSE row.retail_price,
                      wholesale_price |-> row.wholesale_price,
                      warehouse_location |-> row.warehouse_location]
         IN  v1_excel_rows_one_over(Tail(rows), user_id, table \cup {item}, next_id + 1)

RECURSIVE v1_excel_rows(_, _, _, _)
v1_excel_rows(rows, user_id, table, next_id) ==
    IF rows = <<>> \/ Cardinality({r \in table : r.user_id = user_id}) >= MAX_STOCK_ITEMS
    THEN [stock |-> table, next_id |-> next_id]
    ELSE LET row == Head(rows)
             item == [id |-> next_id, user_id |-> user_id, sku |-> row.sku,
                      tyre_size |-> row.tyre_size, tyre_pattern |-> row.tyre_pattern,
                      brand |-> row.brand, country |-> row.country,
                      qty_available |-> IF row.qty_available <= 0 THEN 1
                                        ELSE row.qty_available,
                      retail_price |-> IF row.retail_price < 0 THEN 0
                                       ELSE row.retail_price,
                      wholesale_price |-> row.wholesale_price,
                      warehouse_location |-> row.warehouse_location]
         IN  v1_excel_rows(Tail(rows), user_id, table \cup {item}, next_id + 1)

\* db.get_subscribers: SELECT DISTINCT u.telegram_id FROM users u JOIN
\* subscriptions s ON u.id = s.user_id WHERE type and value are the given ones
get_subscribers(sub_type, sub_value) ==
    {o.telegram_id : o \in {o \in users : \E sub \in subscriptions :
                                /\ sub.user_id = o.id
                                /\ sub.subscription_type = sub_type
                                /\ sub.subscription_value = sub_value}}

\* v1_bot.py calls send_notifications and defines it nowhere
send_notifications(sub_type, sub_value) == Raised("NameError")

\* the notification part of process_excel_file: the pairs it asks
\* get_subscribers about are every brand and every size of the uploader's
\* whole stock (SELECT DISTINCT ... WHERE user_id = ?, at most ten each) and
\* the uploader's company; brands first, then sizes, then the dealer.  The
\* first pair that has subscribers is handed to send_notifications, whose
\* exception ends the part.  The result is the calls made, in order.
v1_notifications(user_id, company_name, table) ==
    LET own == {r \in table : r.user_id = user_id}
        brands == {<<"brand", r.brand>> : r \in {r \in own : r.brand # ""}}
        sizes == {<<"tyre_size", r.tyre_size>> : r \in {r \in own : r.tyre_size # ""}}
        dealer == {<<"dealer", company_name>>}
        heard(pairs) == {p \in pairs : get_subscribers(p[1], p[2]) # {}}
        first == IF heard(brands) # {} THEN heard(brands)
                 ELSE IF heard(sizes) # {} THEN heard(sizes)
                 ELSE heard(dealer)
    IN  IF first = {} THEN {NoNotifications}
        ELSE {<<[subscription_type |-> p[1], subscription_value |-> p[2],
                 outcome |-> send_notifications(p[1], p[2])]>> : p \in first}

\* the reply of a handler that has called send_notifications
Notifying(u, h, text, reply, notified) ==
    last' = [user |-> u, handler |-> h, text |-> text, reply |-> reply,
             document |-> NoDocument, notified |-> notified]

\* process_excel_upload with process_excel_file: registered for any document
\* and for the upload state; no role is looked at.  The rows are inserted
\* one by one and stay when the notification part raises: the exception is
\* caught at the end of process_excel_file and reported.
v1_process_excel_upload(u, text) ==
    /\ Delivered_v1(u, text, "process_excel_upload",
                    IsDocument(text) \/ fsm_state[u] = "UploadExcel:waiting_for_file")
    /\ next_stock_id + Len(ExcelRows(text)) - 1 <= MaxStockId
    /\ IF check_rate_limit(requests[u])
       THEN Counted(u, requests[u]) /\ Answer(u, "process_excel_upload", text, "too_many_requests")
       ELSE IF text \in {"/cancel", "Otmena"}
       THEN v1_cancel(u, "process_excel_upload", text, after_is_limited(requests[u]))
       ELSE /\ Counted(u, requests[u])
            /\ IF ~IsDocument(text)
               THEN Answer(u, "process_excel_upload", text, "send_excel_file")
               ELSE IF ~IsExcelName(text)
               THEN Answer(u, "process_excel_upload", text, "wrong_format")
               ELSE IF UserOf(u) = NoRow
               THEN Answer(u, "process_excel_upload", text, "user_not_found")
               ELSE LET done == v1_excel_rows(ExcelRows(text), UserOf(u).id,
                                              stock, next_stock_id)
                    IN  /\ stock' = done.stock
                        /\ next_stock_id' = done.next_id
                        /\ clear(u)
                        /\ UNCHANGED <<users, next_user_id>>
                        /\ \E notified \in IF done.next_id = next_stock_id
                                            THEN {NoNotifications}
                                            ELSE v1_notifications(UserOf(u).id,
                                                     UserOf(u).company_name, done.stock) :
                              Notifying(u, "process_excel_upload", text,
                                        IF notified = NoNotifications
                                        THEN "upload_report" ELSE "excel_error", notified)

\* the search state is never set: the reply is built with get_cancel_keyboard()
v1_cmd_search(u, text) ==
    /\ Delivered_v1(u, text, "cmd_search", text \in {"/search", "Poisk"})
    /\ Counted(u, requests[u])
    /\ IF check_rate_limit(requests[u])
       THEN Answer(u, "cmd_search", text, "too_many_requests")
       ELSE IF UserOf(u) = NoRow
       THEN Answer(u, "cmd_search", text, "register_first")
       ELSE raises_NameError(u, "cmd_search", text)

v1_cmd_delete_all_stock(u, text) ==
    /\ Delivered_v1(u, text, "cmd_delete_all_stock", text = "Udalit ves sklad")
    /\ Counted(u, requests[u])
    /\ UNCHANGED <<users, stock, next_user_id, next_stock_id, fsm_data>>
    /\ IF check_rate_limit(requests[u])
       THEN Said(u, "cmd_delete_all_stock", text, "too_many_requests") /\ UNCHANGED fsm_state
       ELSE IF UserOf(u) = NoRow
       THEN Said(u, "cmd_delete_all_stock", text, "register_first") /\ UNCHANGED fsm_state
       ELSE IF UserOf(u).role # "Diler" /\ ~is_admin(u)
       THEN Said(u, "cmd_delete_all_stock", text, "only_dealers") /\ UNCHANGED fsm_state
       ELSE IF get_user_stock_count(UserOf(u).id) = 0
       THEN Said(u, "cmd_delete_all_stock", text, "already_empty") /\ UNCHANGED fsm_state
       ELSE /\ set_state(u, "DeleteAllStock:confirmation")
            /\ Said(u, "cmd_delete_all_stock", text, "confirm_delete_all")

\* DELETE FROM stock WHERE user_id = ?  on "Da"; the handler has no cancel branch
v1_process_delete_all_confirmation(u, text) ==
    /\ Delivered_v1(u, text, "process_delete_all_confirmation",
                    fsm_state[u] = "DeleteAllStock:confirmation")
    /\ Counted(u, requests[u])
    /\ IF check_rate_limit(requests[u])
       THEN Answer(u, "process_delete_all_confirmation", text, "too_many_requests")
       ELSE IF text \notin {"Da", "Net"}
       THEN Answer(u, "process_delete_all_confirmation", text, "choose_yes_or_no")
       ELSE IF text = "Net"
       THEN /\ clear(u)
            /\ Said(u, "process_delete_all_confirmation", text, "deletion_cancelled")
            /\ UNCHANGED db
       ELSE IF UserOf(u) = NoRow
       THEN /\ clear(u)
            /\ Said(u, "process_delete_all_confirmation", text, "delete_error")
            /\ UNCHANGED db
       ELSE /\ stock' = {r \in stock : r.user_id # UserOf(u).id}
            /\ clear(u)
            /\ Said(u, "process_delete_all_confirmation", text, "deleted")
            /\ UNCHANGED <<users, next_user_id, next_stock_id>>

\* the panel is never shown: after both gates the reply is built with
\* get_admin_keyboard()
v1_cmd_admin(u, text) ==
    /\ Delivered_v1(u, text, "cmd_admin", text \in {"/admin", "Admin"})
    /\ Counted(u, requests[u])
    /\ IF check_rate_limit(requests[u])
       THEN Answer(u, "cmd_admin", text, "too_many_requests")
       ELSE IF ~is_admin(u)
       THEN Answer(u, "cmd_admin", text, "access_denied")
       ELSE raises_NameError(u, "cmd_admin", text)

\* an admin button of v1_bot: the admin check is the only gate, the limiter
\* is not asked and records nothing
v1_admin_button(u, h, text, replies) ==
    /\ UNCHANGED requests
    /\ IF ~is_admin(u)
       THEN Answer(u, h, text, "access_denied")
       ELSE \E reply \in replies : Answer(u, h, text, reply)

v1_cmd_admin_users(u, text) ==
    /\ Delivered_v1(u, text, "cmd_admin_users", text = "Polzovateli")
    /\ v1_admin_button(u, "cmd_admin_users", text,
                       IF users = {} THEN {"no_users"} ELSE {"all_users"})

v1_cmd_admin_export(u, text) ==
    /\ Delivered_v1(u, text, "cmd_admin_export", text = "Eksport")
    /\ v1_admin_button(u, "cmd_admin_export", text, {"full_export", "export_error"})

v1_cmd_admin_backup(u, text) ==
    /\ Delivered_v1(u, text, "cmd_admin_backup", text = "Bekap")
    /\ v1_admin_button(u, "cmd_admin_backup", text, {"backup_created", "backup_error"})

\* the SQL state is never set: the prompt is built with get_cancel_keyboard()
v1_cmd_admin_sql(u, text) ==
    /\ Delivered_v1(u, text, "cmd_admin_sql", text = "SQL")
    /\ UNCHANGED requests
    /\ IF ~is_admin(u)
       THEN Answer(u, "cmd_admin_sql", text, "access_denied")
       ELSE raises_NameError(u, "cmd_admin_sql", text)

v1_unknown_message(u, text) ==
    /\ Delivered_v1(u, text, "unknown_message", TRUE)
    /\ Counted(u, requests[u])
    /\ IF check_rate_limit(requests[u])
       THEN Answer(u, "unknown_message", text, "too_many_requests")
       ELSE Answer(u, "unknown_message", text, "unknown_command")

\* cmd_subscriptions: the reply is built with get_subscription_keyboard(),
\* which is defined nowhere, so SubscriptionState.waiting_for_type is never set
v1_cmd_subscriptions(u, text) ==
    /\ Delivered_v1(u, text, "cmd_subscriptions", text \in {"/subscriptions", "Uvedomleniya"})
    /\ Counted(u, requests[u])
    /\ IF check_rate_limit(requests[u])
       THEN Answer(u, "cmd_subscriptions", text, "too_many_requests")
       ELSE IF UserOf(u) = NoRow
       THEN Answer(u, "cmd_subscriptions", text, "register_first")
       ELSE raises_NameError(u, "cmd_subscriptions", text)

\* callback data of the inline buttons under a subscription list; the lists
\* sent before a restart stay in the chat with their buttons
CallbackData == {"unsub_all", "unsub_1", "unsub_2", "unsub_3"}

\* int(callback.data[6:])
sub_id(data) ==
    CASE data = "unsub_1" -> 1 [] data = "unsub_2" -> 2 [] data = "unsub_3" -> 3

\* process_unsubscribe: a callback query, outside the message handlers, the
\* rate limiter and the conversation
v1_process_unsubscribe(u, data) ==
    /\ program = "v1"
    /\ u = actor
    /\ data \in CallbackData
    /\ UNCHANGED <<program, actor, requests, call, cache>>
    /\ IF data = "unsub_all"
       THEN IF UserOf(u) = NoRow
            THEN /\ UNCHANGED subscriptions
                 /\ Answer(u, "process_unsubscribe", data, "user_not_found")
            ELSE /\ subscriptions' = {sub \in subscriptions : sub.user_id # UserOf(u).id}
                 /\ Answer(u, "process_unsubscribe", data, "unsubscribed_all")
       ELSE IF \E sub \in subscriptions : sub.id = sub_id(data)
            THEN /\ subscriptions' = {sub \in subscriptions : sub.id # sub_id(data)}
                 /\ Answer(u, "process_unsubscribe", data, "unsubscribed")
            ELSE /\ UNCHANGED subscriptions
                 /\ Answer(u, "process_unsubscribe", data, "subscription_not_found")

\* rows of table subscriptions
subscription(id, user_id, sub_type, sub_value) ==
    [id |-> id, user_id |-> user_id, subscription_type |-> sub_type,
     subscription_value |-> sub_value]

\* the subscriptions found at start-up, none of them stored twice: the
\* other account follows a brand of the workbook, or a brand the dealer
\* already stocks, or the dealer, or both accounts follow the workbook
v1_seed_subscriptions(dealer) ==
    LET other == CHOOSE o \in Users : o # dealer
    IN  {{},
         {subscription(1, other, "brand", "Michelin")},
         {subscription(1, other, "brand", "Nokian")},
         {subscription(1, other, "dealer", "ACME")},
         {subscription(1, other, "brand", "Michelin"),
          subscription(2, other, "tyre_size", "195/65R15"),
          subscription(3, dealer, "brand", "Michelin")}}

InitNotify ==
    /\ program = "v1"
    /\ InitCommon
    /\ \E dealer \in Users :
          /\ users = v1_seed_users(dealer) /\ stock = v1_seed_stock(dealer)
          /\ subscriptions \in v1_seed_subscriptions(dealer)
    /\ next_user_id = 3 /\ next_stock_id = 2

\* v1_bot with subscribers: uploads, the subscription command and the
\* unsubscribe buttons
NextNotify ==
    \E text \in TextsV1 \cup CallbackData :
          \/ v1_process_excel_upload(actor, text)
          \/ v1_cmd_subscriptions(actor, text)
          \/ v1_process_unsubscribe(actor, text)
          \/ v1_cancel_handler(actor, text)

SpecNotify == InitNotify /\ [][NextNotify \/ Tick]_vars

\* size_matches called on its own.  The query is any text of up to
\* MaxSizeLen characters of SizeAlphabet or one of the three spellings of
\* 195/65 R15; the stock size is one of StockSizes.
SizeAlphabet == {"1", ".", "/", " ", "r"}

MaxSizeLen == 4

Spellings ==
    {<<"1", "9", "5", ".", "6", "5", "r", "1", "5">>,
     <<"1", "9", "5", "/", "6", "5", " ", "R", "1", "5">>,
     <<"1", "9", "5", "/", "6", "5", "R", " ", "1", "5">>}

Queries == UNION {[1..n -> SizeAlphabet] : n \in 0..MaxSizeLen} \cup Spellings

StockSizes ==
    Spellings \cup
    {<<>>, <<"1">>, <<"R">>, <<" ">>, <<"1", "/", "1">>, <<"1", " ", "1">>,
     <<"1", " ", " ", "1">>, <<" ", "1">>, <<"1", "R", "1">>, <<"/", "R">>,
     <<"1", "/", "1", " ", "R", " ", "1">>, <<"R", " ", "R">>}

\* everything but call, as v1_bot finds it at its first start
InitIdle ==
    /\ program = "v1"
    /\ fsm_state = [u \in Users |-> None]
    /\ fsm_data = [u \in Users |-> EmptyData]
    /\ requests = [u \in Users |-> <<>>]
    /\ actor = 1
    /\ last = [user |-> 0, handler |-> "start_polling", text |-> NoValue, reply |-> NoValue,
             document |-> NoDocument, notified |-> NoNotifications]
    /\ subscriptions = {}
    /\ cache = EmptyCache
    /\ users = {} /\ stock = {}
    /\ next_user_id = 1 /\ next_stock_id = 1

InitSize ==
    /\ InitIdle
    /\ \E search_size \in Queries, stock_size \in StockSizes :
          call = [function |-> "size_matches", args |-> <<search_size, stock_size>>,
                  done |-> FALSE, result |-> FALSE]

size_matches_called ==
    /\ call.function = "size_matches"
    /\ ~call.done
    /\ call' = [call EXCEPT !.done = TRUE,
                            !.result = size_matches(call.args[1], call.args[2])]
    /\ UNCHANGED <<program, users, stock, next_user_id, next_stock_id, fsm_state,
                   fsm_data, requests, subscriptions, actor, cache, last>>

NextSize == size_matches_called

SpecSize == InitSize /\ [][NextSize]_vars

InitV1 ==
    /\ program = "v1"
    /\ InitCommon
    /\ subscriptions = {}
    /\ \/ /\ users = {} /\ stock = {}
          /\ next_user_id = 1 /\ next_stock_id = 1
       \/ \E dealer \in Users :
             /\ users = v1_seed_users(dealer) /\ stock = v1_seed_stock(dealer)
             /\ next_user_id = 3 /\ next_stock_id = 2

NextV1 ==
    \E text \in TextsV1 :
          \/ v1_cmd_upload_excel(actor, text)
          \/ v1_process_excel_upload(actor, text)
          \/ v1_cancel_handler(actor, text)
          \/ v1_cmd_start(actor, text)
          \/ v1_cmd_search(actor, text)
          \/ v1_cmd_delete_all_stock(actor, text)
          \/ v1_process_delete_all_confirmation(actor, text)
          \/ v1_cmd_addstock(actor, text)
          \/ v1_process_role(actor, text)
          \/ v1_process_company(actor, text)
          \/ v1_process_inn(actor, text)
          \/ v1_process_phone(actor, text)
          \/ v1_process_email(actor, text)
          \/ v1_cmd_admin(actor, text)
          \/ v1_cmd_admin_users(actor, text)
          \/ v1_cmd_admin_export(actor, text)
          \/ v1_cmd_admin_backup(actor, text)
          \/ v1_cmd_admin_sql(actor, text)
          \/ v1_cmd_subscriptions(actor, text)
          \/ v1_unknown_message(actor, text)

SpecV1 == InitV1 /\ [][NextV1 \/ Tick]_vars

(***************************************************************************)
(* src/bot.py with src/database.py.  No limiter, no role check.  The role  *)
(* texts are "Diler", "Pokupatel", "Diler i Pokupatel"; "Otmena" is the    *)
(* typed word that casefolds to the cancel word, "vse" the word for all.   *)
(***************************************************************************)
Route_bot(state, text) ==
    IF text = "/start" THEN "cmd_start"
    ELSE IF text \in {"Diler", "Pokupatel", "Diler i Pokupatel"} THEN "process_role"
    ELSE IF text = "/addstock" THEN "cmd_addstock"
    ELSE IF state = "AddStock:waiting_for_size" THEN "process_size"
    ELSE IF state = "AddStock:waiting_for_load_index" THEN "process_load_index"
    ELSE IF state = "AddStock:waiting_for_brand" THEN "process_brand"
    ELSE IF state = "AddStock:waiting_for_country" THEN "process_country"
    ELSE IF state = "AddStock:waiting_for_qty" THEN "process_qty"
    ELSE IF state = "AddStock:waiting_for_price" THEN "process_price"
    ELSE IF state = "AddStock:waiting_for_region" THEN "process_region"
    ELSE IF text \in {"/cancel", "Otmena"} THEN "cancel_handler"
    ELSE IF text = "/search" THEN "cmd_search"
    ELSE IF state = "SearchStock:waiting_for_size" THEN "process_search_size"
    ELSE IF state = "SearchStock:waiting_for_load_index" THEN "process_search_load_index"
    ELSE IF state = "SearchStock:waiting_for_brand" THEN "process_search_brand"
    ELSE IF state = "SearchStock:waiting_for_country" THEN "process_search_country"
    ELSE IF state = "SearchStock:waiting_for_region" THEN "process_search_region"
    ELSE IF IsDocument(text) THEN "handle_excel_file"
    ELSE IF text = "/help" THEN "cmd_help"
    ELSE "unknown_message"

AnswersBot(state) ==
    CASE state = None -> {"hello"}
      [] state = "AddStock:waiting_for_size" -> {"205/55R16", "/cancel"}
      [] state = "AddStock:waiting_for_load_index" -> {"91"}
      [] state = "AddStock:waiting_for_brand" -> {"Nokian"}
      [] state = "AddStock:waiting_for_country" -> {"FI"}
      [] state = "AddStock:waiting_for_qty" -> {"10", "0", "/cancel"}
      [] state = "AddStock:waiting_for_price" -> {"4500", "0", "abc"}
      [] state = "AddStock:waiting_for_region" -> {"MSK"}
      [] state = "SearchStock:waiting_for_size" -> {"vse", "205/55R16"}
      [] state = "SearchStock:waiting_for_load_index" -> {"vse"}
      [] state = "SearchStock:waiting_for_brand" -> {"vse"}
      [] state = "SearchStock:waiting_for_country" -> {"vse"}
      [] state = "SearchStock:waiting_for_region" -> {"vse"}
      [] OTHER -> {}

\* the commands, role buttons and files the sender sends from a state
CommandsBot(state) ==
    CASE state = None ->
            {"/start", "Diler", "Pokupatel", "/addstock", "/cancel", "Otmena", "/search",
             "doc:stock.xlsx", "doc:zero.xlsx", "doc:notes.txt"}
      [] state = "AddStock:waiting_for_load_index" -> {"/start", "/addstock"}
      [] state = "AddStock:waiting_for_qty" -> {"/addstock"}
      [] state = "SearchStock:waiting_for_size" -> {"/cancel", "/search"}
      [] state = "SearchStock:waiting_for_load_index" -> {"Otmena", "/addstock", "/search"}
      [] state = "SearchStock:waiting_for_region" -> {"/cancel"}
      [] OTHER -> {}

InputsBot(state) == AnswersBot(state) \cup CommandsBot(state)

\* every text of InputsBot
TextsBot ==
    {"/start", "Diler", "Pokupatel", "/addstock", "/cancel", "Otmena", "/search",
     "doc:stock.xlsx", "doc:zero.xlsx", "doc:notes.txt", "hello", "205/55R16", "91",
     "Nokian", "FI",
     "10", "0", "4500", "abc", "MSK", "vse"}

Delivered_bot(u, text, h, filter) ==
    /\ program = "bot"
    /\ u = actor
    /\ filter
    /\ Route_bot(fsm_state[u], text) = h
    /\ text \in InputsBot(fsm_state[u])
    /\ UNCHANGED <<program, actor, requests, subscriptions, call, cache>>

bot_cmd_start(u, text) ==
    /\ Delivered_bot(u, text, "cmd_start", text = "/start")
    /\ IF UserOf(u) = NoRow
       THEN Answer(u, "cmd_start", text, "choose_role")
       ELSE Answer(u, "cmd_start", text, "welcome_back")

\* INSERT INTO users (telegram_id, name, role); telegram_id is UNIQUE
bot_process_role(u, text) ==
    /\ Delivered_bot(u, text, "process_role",
                     text \in {"Diler", "Pokupatel", "Diler i Pokupatel"})
    /\ UNCHANGED <<stock, next_stock_id, fsm_state, fsm_data>>
    /\ \E raised \in IF UserOf(u) = NoRow THEN BOOLEAN ELSE {TRUE} :
          IF raised
          THEN /\ Said(u, "process_role", text, "registration_error")
               /\ UNCHANGED <<users, next_user_id>>
          ELSE /\ users' = users \cup {[id |-> next_user_id, telegram_id |-> u,
                                        name |-> full_name(u), role |-> text]}
               /\ next_user_id' = next_user_id + 1
               /\ Said(u, "process_role", text, "registered")

bot_cmd_addstock(u, text) ==
    /\ Delivered_bot(u, text, "cmd_addstock", text = "/addstock")
    /\ set_state(u, "AddStock:waiting_for_size")
    /\ Said(u, "cmd_addstock", text, "enter_size")
    /\ UNCHANGED <<users, stock, next_user_id, next_stock_id, fsm_data>>

\* a step of bot.py: the answer is stored and the next step is set
bot_step(u, h, text, valid, field, value, next, prompt, complaint) ==
    IF ~valid
    THEN Answer(u, h, text, complaint)
    ELSE /\ fsm_data' = [fsm_data EXCEPT ![u] = update_data(@, field, value)]
         /\ set_state(u, next)
         /\ Said(u, h, text, prompt)
         /\ UNCHANGED db

bot_process_size(u, text) ==
    /\ Delivered_bot(u, text, "process_size", fsm_state[u] = "AddStock:waiting_for_size")
    /\ bot_step(u, "process_size", text, TRUE, "tyre_size", text,
                "AddStock:waiting_for_load_index", "enter_load_index", "-")

bot_process_load_index(u, text) ==
    /\ Delivered_bot(u, text, "process_load_index",
                     fsm_state[u] = "AddStock:waiting_for_load_index")
    /\ bot_step(u, "process_load_index", text, TRUE, "load_index", text,
                "AddStock:waiting_for_brand", "enter_brand", "-")

bot_process_brand(u, text) ==
    /\ Delivered_bot(u, text, "process_brand", fsm_state[u] = "AddStock:waiting_for_brand")
    /\ bot_step(u, "process_brand", text, TRUE, "brand", text,
                "AddStock:waiting_for_country", "enter_country", "-")

bot_process_country(u, text) ==
    /\ Delivered_bot(u, text, "process_country", fsm_state[u] = "AddStock:waiting_for_country")
    /\ bot_step(u, "process_country", text, TRUE, "country", text,
                "AddStock:waiting_for_qty", "enter_qty", "-")

bot_process_qty(u, text) ==
    /\ Delivered_bot(u, text, "process_qty", fsm_state[u] = "AddStock:waiting_for_qty")
    /\ bot_step(u, "process_qty", text, py_int(text).ok /\ py_int(text).value > 0,
                "qty", py_int(text).value, "AddStock:waiting_for_price", "enter_price",
                IF py_int(text).ok THEN "must_be_positive" ELSE "not_a_number")

bot_process_price(u, text) ==
    /\ Delivered_bot(u, text, "process_price", fsm_state[u] = "AddStock:waiting_for_price")
    /\ bot_step(u, "process_price", text, py_float(text).ok /\ py_float(text).value > 0,
                "price", py_float(text).value, "AddStock:waiting_for_region", "enter_region",
                IF py_float(text).ok THEN "must_be_positive" ELSE "not_a_number")

\* the final step: the insert, then state.clear() on every path.  The insert
\* and the message that reports it stand in one try: when message.answer
\* raises after the commit (Telegram refuses a text of more than 4096
\* characters, or the network fails) the except branch reports an error.
bot_process_region(u, text) ==
    /\ Delivered_bot(u, text, "process_region", fsm_state[u] = "AddStock:waiting_for_region")
    /\ next_stock_id <= MaxStockId
    /\ clear(u)
    /\ UNCHANGED <<users, next_user_id>>
    /\ IF UserOf(u) = NoRow
       THEN /\ Said(u, "process_region", text, "user_not_found")
            /\ UNCHANGED <<stock, next_stock_id>>
       ELSE \E raised \in IF {"tyre_size", "load_index", "brand", "country", "qty", "price"}
                                 \subseteq DOMAIN fsm_data[u]
                          THEN BOOLEAN ELSE {TRUE} :
              IF raised
              THEN /\ Said(u, "process_region", text, "add_error")
                   /\ UNCHANGED <<stock, next_stock_id>>
              ELSE /\ stock' = stock \cup
                        {[id |-> next_stock_id, user_id |-> UserOf(u).id,
                          tyre_size |-> fsm_data[u]["tyre_size"],
                          load_index |-> fsm_data[u]["load_index"],
                          brand |-> fsm_data[u]["brand"],
                          country |-> fsm_data[u]["country"],
                          qty |-> fsm_data[u]["qty"],
                          price |-> fsm_data[u]["price"],
                          region |-> text]}
                   /\ next_stock_id' = next_stock_id + 1
                   /\ \E answered \in BOOLEAN :
                         Said(u, "process_region", text,
                              IF answered THEN "item_added" ELSE "add_error")

\* registered after the AddStock step handlers and before the search ones
bot_cancel_handler(u, text) ==
    /\ Delivered_bot(u, text, "cancel_handler", text \in {"/cancel", "Otmena"})
    /\ UNCHANGED db
    /\ IF fsm_state[u] = None
       THEN Said(u, "cancel_handler", text, "no_active_operations")
            /\ UNCHANGED <<fsm_state, fsm_data>>
       ELSE clear(u) /\ Said(u, "cancel_handler", text, "cancelled")

bot_cmd_search(u, text) ==
    /\ Delivered_bot(u, text, "cmd_search", text = "/search")
    /\ set_state(u, "SearchStock:waiting_for_size")
    /\ Said(u, "cmd_search", text, "enter_search_size")
    /\ UNCHANGED <<users, stock, next_user_id, next_stock_id, fsm_data>>

\* the LIKE pattern a search step stores: '%' for the word for all, else
\* '%text%', kept here as the text itself
bot_pattern(text) == IF text = "vse" THEN "%" ELSE text

bot_like(value, pattern) == pattern = "%" \/ Like(value, pattern)

bot_process_search_size(u, text) ==
    /\ Delivered_bot(u, text, "process_search_size",
                     fsm_state[u] = "SearchStock:waiting_for_size")
    /\ bot_step(u, "process_search_size", text, TRUE, "tyre_size", bot_pattern(text),
                "SearchStock:waiting_for_load_index", "enter_search_load_index", "-")

bot_process_search_load_index(u, text) ==
    /\ Delivered_bot(u, text, "process_search_load_index",
                     fsm_state[u] = "SearchStock:waiting_for_load_index")
    /\ bot_step(u, "process_search_load_index", text, TRUE, "load_index", bot_pattern(text),
                "SearchStock:waiting_for_brand", "enter_search_brand", "-")

bot_process_search_brand(u, text) ==
    /\ Delivered_bot(u, text, "process_search_brand",
                     fsm_state[u] = "SearchStock:waiting_for_brand")
    /\ bot_step(u, "process_search_brand", text, TRUE, "brand", bot_pattern(text),
                "SearchStock:waiting_for_country", "enter_search_country", "-")

bot_process_search_country(u, text) ==
    /\ Delivered_bot(u, text, "process_search_country",
                     fsm_state[u] = "SearchStock:waiting_for_country")
    /\ bot_step(u, "process_search_country", text, TRUE, "country", bot_pattern(text),
                "SearchStock:waiting_for_region", "enter_search_region", "-")

bot_search_rows(data, region) ==
    {r \in stock :
        /\ \E o \in users : o.id = r.user_id
        /\ bot_like(r.tyre_size, data["tyre_size"])
        /\ bot_like(r.load_index, data["load_index"])
        /\ bot_like(r.brand, data["brand"])
        /\ bot_like(r.country, data["country"])
        /\ bot_like(r.region, region)}

\* the answer lists, for every row found (ORDER BY s.date DESC), item[2] to
\* item[8] of the stock row, then the owner's name and contact; a contact
\* that is NULL, as registration leaves it, is shown as not given
bot_response(found) ==
    [columns |-> <<"tyre_size", "load_index", "brand", "country", "qty", "price",
                   "region", "name", "contact">>,
     rows |-> [i \in 1..Cardinality(found) |->
                 LET r == by_date_desc(found)[i]
                     o == CHOOSE o \in users : o.id = r.user_id
                 IN  <<r.tyre_size, r.load_index, r.brand, r.country, r.qty, r.price,
                       r.region, o.name, "Ne ukazan">>]]

bot_process_search_region(u, text) ==
    /\ Delivered_bot(u, text, "process_search_region",
                     fsm_state[u] = "SearchStock:waiting_for_region")
    /\ IF ~({"tyre_size", "load_index", "brand", "country"} \subseteq DOMAIN fsm_data[u])
       THEN Answer(u, "process_search_region", text, "handler_error")
       ELSE /\ clear(u)
            /\ UNCHANGED db
            /\ IF bot_search_rows(fsm_data[u], bot_pattern(text)) = {}
               THEN Said(u, "process_search_region", text, "nothing_found")
               ELSE Sent(u, "process_search_region", text, "search_results",
                         bot_response(bot_search_rows(fsm_data[u], bot_pattern(text))))

\* the rows of the uploaded workbook, with the columns bot.py requires; the
\* second workbook lists a tyre that is out of stock and not yet priced
BotExcelRows(text) ==
    IF text = "doc:zero.xlsx"
    THEN <<[tyre_size |-> "195/65R15", load_index |-> "91", brand |-> "Michelin",
            country |-> "FR", qty |-> 0, price |-> 0, region |-> "SPB"]>>
    ELSE <<[tyre_size |-> "195/65R15", load_index |-> "91", brand |-> "Michelin",
            country |-> "FR", qty |-> 4, price |-> 390000, region |-> "SPB"]>>

RECURSIVE bot_excel_rows(_, _, _, _)
bot_excel_rows(rows, user_id, table, next_id) ==
    IF rows = <<>> THEN [stock |-> table, next_id |-> next_id]
    ELSE LET row == Head(rows)
             item == [id |-> next_id, user_id |-> user_id, tyre_size |-> row.tyre_size,
                      load_index |-> row.load_index, brand |-> row.brand,
                      country |-> row.country, qty |-> row.qty, price |-> row.price,
                      region |-> row.region]
         IN  bot_excel_rows(Tail(rows), user_id, table \cup {item}, next_id + 1)

\* any document from any registered account is loaded into the stock table
bot_handle_excel_file(u, text) ==
    /\ Delivered_bot(u, text, "handle_excel_file", IsDocument(text))
    /\ next_stock_id + Len(BotExcelRows(text)) - 1 <= MaxStockId
    /\ IF ~IsExcelName(text)
       THEN Answer(u, "handle_excel_file", text, "send_excel_file")
       ELSE IF UserOf(u) = NoRow
       THEN Answer(u, "handle_excel_file", text, "register_first")
       ELSE LET done == bot_excel_rows(BotExcelRows(text), UserOf(u).id, stock, next_stock_id)
            IN  /\ stock' = done.stock
                /\ next_stock_id' = done.next_id
                /\ Said(u, "handle_excel_file", text, "upload_report")
                /\ UNCHANGED <<users, next_user_id, fsm_state, fsm_data>>

bot_unknown_message(u, text) ==
    /\ Delivered_bot(u, text, "unknown_message", TRUE)
    /\ Answer(u, "unknown_message", text, "unknown_command")

\* bot.py knows no admin: one account stands for every sender
InitBot ==
    /\ program = "bot"
    /\ InitCommon
    /\ subscriptions = {}
    /\ actor = 2
    /\ users = {} /\ stock = {}
    /\ next_user_id = 1 /\ next_stock_id = 1

NextBot ==
    \E text \in TextsBot :
          \/ bot_cmd_start(actor, text)
          \/ bot_process_role(actor, text)
          \/ bot_cmd_addstock(actor, text)
          \/ bot_process_size(actor, text)
          \/ bot_process_load_index(actor, text)
          \/ bot_process_brand(actor, text)
          \/ bot_process_country(actor, text)
          \/ bot_process_qty(actor, text)
          \/ bot_process_price(actor, text)
          \/ bot_process_region(actor, text)
          \/ bot_cancel_handler(actor, text)
          \/ bot_cmd_search(actor, text)
          \/ bot_process_search_size(actor, text)
          \/ bot_process_search_load_index(actor, text)
          \/ bot_process_search_brand(actor, text)
          \/ bot_process_search_country(actor, text)
          \/ bot_process_search_region(actor, text)
          \/ bot_handle_excel_file(actor, text)
          \/ bot_unknown_message(actor, text)

SpecBot == InitBot /\ [][NextBot]_vars

(***************************************************************************)
(* The three programs together: one of them runs                           *)
(***************************************************************************)
Init == InitEn \/ InitV1 \/ InitBot

Next == NextEn \/ NextV1 \/ NextBot \/ Tick

Spec == Init /\ [][Next]_vars

(***************************************************************************)
(* Properties.  A step that handles a message records it in last', so an   *)
(* action formula reads the text and the handler from last' and the        *)
(* conversation the message met from the unprimed variables.               *)
(***************************************************************************)
\* the step handles a message (every other step is Tick)
Message == last'.handler \notin {"tick", "start_polling"}

\* the reserved cancel texts
CancelTokens == {"/cancel", "Otmena"}

\* state.clear() has happened for the sender and the store is as before
Cleared ==
    /\ fsm_state'[actor] = None
    /\ fsm_data'[actor] = EmptyData
    /\ UNCHANGED <<users, stock, next_user_id, next_stock_id>>

\* the conversation and the store are as before
Untouched == UNCHANGED <<fsm_state, fsm_data, users, stock, next_user_id, next_stock_id>>

\* the steps of the add-item flow of en_v1_bot and v1_bot, in order
AddStockOrder ==
    <<"AddStock:waiting_for_sku", "AddStock:waiting_for_size",
      "AddStock:waiting_for_pattern", "AddStock:waiting_for_brand",
      "AddStock:waiting_for_country", "AddStock:waiting_for_qty",
      "AddStock:waiting_for_retail_price", "AddStock:waiting_for_wholesale_price",
      "AddStock:waiting_for_warehouse">>

AddStockHandlers ==
    <<"process_sku", "process_size", "process_pattern", "process_brand",
      "process_country", "process_qty", "process_retail_price",
      "process_wholesale_price", "process_warehouse">>

AddStockFields ==
    {"sku", "tyre_size", "tyre_pattern", "brand", "country", "qty_available",
     "retail_price", "wholesale_price"}

\* a valid answer to step i of the add-item flow of en_v1_bot
ValidAddAnswer(i, text) ==
    CASE i = 6 -> py_int(text).ok /\ py_int(text).value > 0
      [] i \in {7, 8} -> py_float(text).ok /\ py_float(text).value > 0
      [] OTHER -> TRUE

\* C1: in the add-item flow of en_v1_bot, when a registered Dealer within the
\* rate limit has given valid answers for SKU, size, pattern, brand, country,
\* quantity, retail price and wholesale price and now sends the warehouse,
\* the flow ends: exactly one row owned by the dealer is added, holding the
\* entered values, and no conversation stays active.
C1_AddItemCommitsEnteredValues ==
    [][ ( /\ Message
          /\ UserOf(actor) # NoRow
          /\ UserOf(actor).role = "Dealer"
          /\ fsm_state[actor] \in {"AddStock:waiting_for_wholesale_price",
                                   "AddStock:waiting_for_warehouse"}
          /\ AddStockFields \subseteq DOMAIN fsm_data[actor]
          /\ last'.text = "MSK-1"
          /\ ~is_limited(requests[actor]) )
        => /\ fsm_state'[actor] = None
           /\ fsm_data'[actor] = EmptyData
           /\ Cardinality(stock') = Cardinality(stock) + 1
           /\ stock' = stock \cup
                {[id |-> next_stock_id, user_id |-> UserOf(actor).id,
                  sku |-> fsm_data[actor]["sku"],
                  tyre_size |-> fsm_data[actor]["tyre_size"],
                  tyre_pattern |-> fsm_data[actor]["tyre_pattern"],
                  brand |-> fsm_data[actor]["brand"],
                  country |-> fsm_data[actor]["country"],
                  qty_available |-> fsm_data[actor]["qty_available"],
                  retail_price |-> fsm_data[actor]["retail_price"],
                  wholesale_price |-> fsm_data[actor]["wholesale_price"],
                  warehouse_location |-> "MSK-1"]} ]_vars

\* C2: a valid answer at a non-final step of the add-item flow, from a sender
\* within the rate limit, moves the conversation to exactly the next step of
\* the order SKU, size, pattern, brand, country, quantity, retail price,
\* wholesale price, warehouse.
C2_ValidAnswerMovesToNextStep ==
    [][ \A i \in 1..8 :
          ( /\ Message
            /\ fsm_state[actor] = AddStockOrder[i]
            /\ last'.handler = AddStockHandlers[i]
            /\ ~is_limited(requests[actor])
            /\ ValidAddAnswer(i, last'.text) )
          => fsm_state'[actor] = AddStockOrder[i + 1] ]_vars

\* C3: at every step of every flow a cancel token from a sender within the
\* rate limit clears the conversation (no step, empty field map) and leaves
\* the store as it was; the token is not stored as a field value.
C3_CancelClearsAtEveryStep ==
    [][ ( /\ Message
          /\ last'.text \in CancelTokens
          /\ fsm_state[actor] # None
          /\ ~is_limited(requests[actor]) )
        => Cleared ]_vars

ValidatedSteps ==
    {"Registration:waiting_for_role", "Registration:waiting_for_inn",
     "Registration:waiting_for_phone", "Registration:waiting_for_email",
     "AddStock:waiting_for_qty", "AddStock:waiting_for_retail_price",
     "AddStock:waiting_for_wholesale_price", "AddStock:waiting_for_price",
     "DeleteAllStock:confirmation", "DeleteItem:confirmation"}

StepHandler(state) ==
    CASE state = "Registration:waiting_for_role" -> "process_role"
      [] state = "Registration:waiting_for_inn" -> "process_inn"
      [] state = "Registration:waiting_for_phone" -> "process_phone"
      [] state = "Registration:waiting_for_email" -> "process_email"
      [] state = "AddStock:waiting_for_qty" -> "process_qty"
      [] state = "AddStock:waiting_for_retail_price" -> "process_retail_price"
      [] state = "AddStock:waiting_for_wholesale_price" -> "process_wholesale_price"
      [] state = "AddStock:waiting_for_price" -> "process_price"
      [] state = "DeleteAllStock:confirmation" -> "process_delete_all_confirmation"
      [] state = "DeleteItem:confirmation" -> "process_delete_confirmation"
      [] OTHER -> "-"

\* the number a quantity or price step reads from text
StepNumber(p, state, text) ==
    IF state = "AddStock:waiting_for_qty" THEN py_int(text) ELSE py_float(text)

\* text passes the validation of the step in program p
ValidAnswer(p, state, text) ==
    CASE state = "Registration:waiting_for_role" ->
            text \in (IF p = "en" THEN {"Dealer", "Buyer"} ELSE {"Diler", "Pokupatel"})
      [] state = "Registration:waiting_for_inn" ->
            validate_inn(IF p = "v1" THEN strip(text) ELSE text)
      [] state = "Registration:waiting_for_phone" ->
            validate_phone(IF p = "v1" THEN strip(text) ELSE text)
      [] state = "Registration:waiting_for_email" ->
            validate_email(IF p = "v1" THEN strip(text) ELSE text)
      [] state \in {"DeleteAllStock:confirmation", "DeleteItem:confirmation"} ->
            text \in (IF p = "v1" THEN {"Da", "Net"} ELSE {"Yes", "No"})
      [] OTHER -> StepNumber(p, state, text).ok /\ StepNumber(p, state, text).value > 0

\* the field a validated step fills; "-" for a step that ends its flow
StepField(p, state) ==
    CASE state = "Registration:waiting_for_role" -> "role"
      [] state = "Registration:waiting_for_inn" -> "inn"
      [] state = "Registration:waiting_for_phone" -> "phone"
      [] state = "AddStock:waiting_for_qty" -> IF p = "bot" THEN "qty" ELSE "qty_available"
      [] state = "AddStock:waiting_for_retail_price" -> "retail_price"
      [] state = "AddStock:waiting_for_wholesale_price" -> "wholesale_price"
      [] state = "AddStock:waiting_for_price" -> "price"
      [] OTHER -> "-"

\* the answer was taken: its value is in the field map, or, at a step that
\* ends its flow, the conversation has left the step
AnswerAccepted(p, state, text) ==
    IF StepField(p, state) = "-"
    THEN fsm_state'[actor] # state
    ELSE /\ StepField(p, state) \in DOMAIN fsm_data'[actor]
         /\ fsm_data'[actor][StepField(p, state)] =
               IF state \in {"Registration:waiting_for_role", "Registration:waiting_for_inn",
                             "Registration:waiting_for_phone"}
               THEN (IF p = "v1" THEN strip(text) ELSE text)
               ELSE StepNumber(p, state, text).value

\* C5: at every validated step (role, tax id, phone, email, quantity, retail
\* price, wholesale price, Yes/No confirmation) an answer that fails the
\* validation leaves the step, the field map and the store unchanged, and a
\* valid answer given at that step by a sender within the rate limit is taken
\* (unless the store itself fails while the answer is carried out, which is
\* no matter of validation).
C5_RejectedAnswerChangesNothing ==
    [][ \A s \in ValidatedSteps :
          (Message /\ fsm_state[actor] = s /\ last'.handler = StepHandler(s))
          => IF ~ValidAnswer(program, s, last'.text)
             THEN Untouched
             ELSE \/ is_limited(requests[actor])
                  \/ last'.reply = "OperationalError"
                  \/ AnswerAccepted(program, s, last'.text) ]_vars

\* C5, case reached: a quantity of zero has just been refused and the
\* conversation still waits at the quantity step.
C5_QuantityRefused ==
    /\ last.handler = "process_qty"
    /\ last.text = "0"
    /\ last.reply = "must_be_positive"
    /\ fsm_state[actor] = "AddStock:waiting_for_qty"

\* the handlers of the non-final and of the final steps of registration and
\* add-item; bot.py registers in the single step process_role
NonFinalHandlers(p) ==
    IF p = "bot"
    THEN {"process_size", "process_load_index", "process_brand", "process_country",
          "process_qty", "process_price"}
    ELSE {"process_role", "process_company", "process_inn", "process_phone",
          "process_sku", "process_size", "process_pattern", "process_brand",
          "process_country", "process_qty", "process_retail_price",
          "process_wholesale_price"}

FinalHandlers(p) ==
    IF p = "bot" THEN {"process_role", "process_region"}
    ELSE {"process_email", "process_warehouse"}

\* C6: a non-final step of registration or add-item leaves the accounts and
\* inventory tables unchanged; a final step writes nothing or exactly one
\* row into exactly one of the two tables.
C6_RecordWrittenOnlyByFinalStep ==
    [][ /\ (Message /\ last'.handler \in NonFinalHandlers(program))
           => UNCHANGED <<users, stock, next_user_id, next_stock_id>>
        /\ (Message /\ last'.handler \in FinalHandlers(program))
           => \/ UNCHANGED <<users, stock>>
              \/ /\ users' = users
                 /\ stock \subseteq stock'
                 /\ Cardinality(stock' \ stock) = 1
              \/ /\ stock' = stock
                 /\ users \subseteq users'
                 /\ Cardinality(users' \ users) = 1 ]_vars

\* C6, case reached: the final step of the add-item flow has written its row.
C6_FinalStepWroteRow ==
    /\ last.handler = "process_region"
    /\ last.reply = "item_added"
    /\ \E r \in stock : r.region = last.text /\ r.id = next_stock_id - 1

EntryCommands ==
    {"/start", "/addstock", "/search", "/deleteitem", "/deletestock", "Zagruzit Excel"}

\* C8: a flow-entry command sent while a conversation is active, by a sender
\* within the rate limit, is refused: the active step, the field map and the
\* store stay as they were.
C8_EntryCommandRefusedWhileActive ==
    [][ ( /\ Message
          /\ last'.text \in EntryCommands
          /\ fsm_state[actor] # None
          /\ ~is_limited(requests[actor]) )
        => Untouched ]_vars

\* the replies with which a command opens its flow
FlowOpened ==
    /\ last.handler \in {"cmd_start", "cmd_addstock", "cmd_search", "cmd_deleteitem",
                         "cmd_deletestock", "cmd_upload_excel"}
    /\ last.reply \in {"choose_role", "enter_sku", "choose_search_type",
                       "enter_search_term", "enter_sku_to_delete", "confirm_delete_all",
                       "send_file"}
    /\ fsm_state[actor] # None

\* C9: whenever a command has just opened a flow, the field map of the
\* sender is empty: nothing collected by an earlier flow is in it.
C9_FlowStartsWithEmptyFieldMap == FlowOpened => fsm_data[actor] = EmptyData

\* C10: no message of a registered non-admin account whose role is Buyer
\* inserts or deletes an inventory row.
C10_BuyerNeverChangesInventory ==
    [][ ( /\ Message
          /\ ~is_admin(actor)
          /\ UserOf(actor) # NoRow
          /\ UserOf(actor).role \in {"Buyer", "Pokupatel"} )
        => stock' = stock ]_vars

\* the conversation states of the raw-SQL dialogue
SqlStates == {"AdminPanel:waiting_for_sql_query", "AdminPanel:confirmation"}

\* the replies that report a raw statement handed to sqlite, a full export
\* or a backup, carried out or failed in the attempt
AdminOperationReplies ==
    {"sql_result", "sql_no_results", "sql_executed", "sql_error",
     "full_export", "export_error", "backup_created", "backup_error"}

\* C11: an account outside the admin list is never in a raw-SQL conversation
\* state, and no message of such an account runs a raw SQL statement, a full
\* export or a database backup.
C11_OnlyAdminsReachSqlExportBackup ==
    /\ \A u \in Users \ ADMIN_IDS : fsm_state[u] \notin SqlStates
    /\ last.user \notin ADMIN_IDS => last.reply \notin AdminOperationReplies

\* C11, case reached: an account outside the admin list has asked for the raw
\* SQL dialogue and was turned away.
C11_OutsiderAskedForSql ==
    /\ last.user \in Users \ ADMIN_IDS
    /\ last.handler = "cmd_admin_sql"
    /\ last.reply = "access_denied"
    /\ fsm_state[last.user] \notin SqlStates
\* C12: every operation asks the rate limiter before it looks at the role: a
\* message of a sender who has exhausted the rate limit gets the throttling
\* reply, never an access-denied reply and never an executed operation.
C12_RateGateBeforeRoleCheck ==
    [][ (Message /\ is_limited(requests[actor]))
        => last'.reply = "too_many_requests" ]_vars
\* C13: the limiter admits at most max_requests requests of a user in any
\* window of 60 seconds: the requests it holds that are younger than the
\* window never exceed the threshold, a request that finds the threshold
\* reached is throttled and one that finds room is recorded with age 0.
C13_AtMostTenAdmittedPerWindow ==
    [][ Message =>
          /\ Len(Recent(requests'[actor])) <= max_requests
          /\ IF Len(Recent(requests[actor])) >= max_requests
             THEN /\ last'.reply = "too_many_requests"
                  /\ requests'[actor] = Recent(requests[actor])
             ELSE requests'[actor] = Append(Recent(requests[actor]), 0) ]_vars

\* C13, case reached: a request was throttled by a window that filled up
\* over time: it holds max_requests requests of different ages.
C13_ThrottledBySlidingWindow ==
    /\ last.reply = "too_many_requests"
    /\ Len(Recent(requests[actor])) = max_requests
    /\ requests[actor][1] > requests[actor][max_requests]
\* C14: a message that is answered with the throttling reply changes
\* nothing: the sender's step, the sender's field map and the store are the
\* same before and after it.
C14_ThrottledMessageChangesNothing ==
    [][ (Message /\ last'.reply = "too_many_requests") => Untouched ]_vars
\* C15: throttling ends with the request it refuses: a message that gets the
\* throttling reply adds nothing to the sender's window, and a message that
\* finds fewer than max_requests requests of its sender inside the window
\* (as it does once the oldest of them is 60 seconds old) is admitted.
C15_ThrottlingLeavesNoTrace ==
    [][ Message =>
          /\ last'.reply = "too_many_requests"
                => requests'[actor] = Recent(requests[actor])
          /\ Len(Recent(requests[actor])) < max_requests
                => last'.reply # "too_many_requests" ]_vars
Cell(document, i, column) ==
    document.rows[i][CHOOSE k \in 1..Len(document.columns) : document.columns[k] = column]

ColumnsOf(document) == {document.columns[k] : k \in 1..Len(document.columns)}

\* a search of the sender was answered with a sheet
SheetSent == Message /\ last'.reply = "search_results" /\ UserOf(actor) # NoRow

\* row i of the sheet shows, under their own names, the stored values of one
\* stock row and of the account that owns it
ShowsStoredValues(document, i, columns) ==
    \E r \in stock : \E o \in users :
        /\ o.id = r.user_id
        /\ \A c \in columns :
              Cell(document, i, c) =
                  IF c \in {"company_name", "phone", "email"} THEN o[c] ELSE r[c]

C18_DealerOrAdminSheetIsComplete ==
    [][ (SheetSent /\ (UserOf(actor).role = "Dealer" \/ is_admin(actor))) =>
            /\ "columns" \in DOMAIN last'.document
            /\ Len(last'.document.columns) = 12
            /\ ColumnsOf(last'.document) =
                  {"sku", "tyre_size", "tyre_pattern", "brand", "country",
                   "qty_available", "retail_price", "wholesale_price",
                   "warehouse_location", "company_name", "phone", "email"}
            /\ \A i \in 1..Len(last'.document.rows) :
                  /\ Len(last'.document.rows[i]) = 12
                  /\ ShowsStoredValues(last'.document, i, ColumnsOf(last'.document))
       ]_vars

\* C19: redacting for a Buyer is idempotent: the rows of a sheet a Buyer has
\* received, redacted for a Buyer again, give the same sheet, without an
\* error, with the same columns and every value under the column it was.
C19_RedactionIsIdempotent ==
    [][ (SheetSent /\ UserOf(actor).role = "Buyer") =>
            create_search_excel(last'.document.rows, "Buyer") = last'.document
       ]_vars

\* the stock rows in which the term occurs, in any case, in at least one of
\* SKU, size, pattern and brand, most recent first
UnionMatches(term) ==
    by_date_desc({r \in stock : \/ Like(r.sku, term) \/ Like(r.tyre_size, term)
                                \/ Like(r.tyre_pattern, term) \/ Like(r.brand, term)})

\* C20: a search for a term (not the search for everything) is answered with
\* exactly the stock rows in which the term is a case-insensitive substring of
\* at least one of SKU, size, pattern and brand, the most recent row first.
C20_SearchIsUnionOverFourFields ==
    [][ ( /\ Message
          /\ last'.handler = "process_search_value"
          /\ last'.reply \in {"search_results", "nothing_found"}
          /\ "search_type" \in DOMAIN fsm_data[actor]
          /\ fsm_data[actor]["search_type"] # "All" ) =>
            /\ "rows" \in DOMAIN last'.document
            /\ Len(last'.document.rows) = Len(UnionMatches(last'.text))
            /\ \A i \in 1..Len(last'.document.rows) :
                  \A c \in {"sku", "tyre_size", "tyre_pattern", "brand",
                             "warehouse_location"} :
                      Cell(last'.document, i, c) = UnionMatches(last'.text)[i][c]
       ]_vars

DealerRoles == {"Dealer", "Diler", "Diler i Pokupatel"}

\* row i of the answer shows the values of stock row r
ShowsRow(document, i, r) ==
    \A c \in ColumnsOf(document) \cap DOMAIN r : Cell(document, i, c) = r[c]

\* C21: whatever a dealer searches for, everything or a term, no row of the
\* answer is a stock row of the dealer's own account: every row shown is a
\* row of another account.
C21_DealerNeverFindsOwnRows ==
    [][ ( /\ Message
          /\ last'.reply = "search_results"
          /\ UserOf(actor) # NoRow
          /\ UserOf(actor).role \in DealerRoles ) =>
            \A i \in 1..Len(last'.document.rows) :
                \E r \in stock : /\ r.user_id # UserOf(actor).id
                                 /\ ShowsRow(last'.document, i, r)
       ]_vars

\* C22: when All is chosen at the search-type step and the message is
\* admitted, the search for every row runs within that same message and the
\* conversation ends cleared: the user is left with no step and no fields,
\* not at the search-type or the search-value step.
C22_AllSearchesAtOnce ==
    [][ ( /\ Message
          /\ last'.handler = "process_search_type"
          /\ last'.text = "All"
          /\ ~is_limited(requests[actor]) ) =>
            /\ last'.reply \in {"search_results", "nothing_found", "search_error"}
            /\ fsm_state'[actor] = None
            /\ fsm_data'[actor] = EmptyData
       ]_vars

\* the account of the sender holds a subscription for the pair
Subscribed(u, sub_type, sub_value) ==
    \E sub \in subscriptions : /\ sub.user_id = UserOf(u).id
                               /\ sub.subscription_type = sub_type
                               /\ sub.subscription_value = sub_value

\* C23: the subscription table never holds two rows for the same account,
\* kind and value; a registered user who asks to subscribe is taken into the
\* subscription dialogue; and a value entered there for a pair the account
\* already follows adds no row and is answered as already subscribed.
C23_OneRowPerSubscription ==
    /\ [](\A a \in subscriptions : \A b \in subscriptions :
              ( /\ a.user_id = b.user_id
                /\ a.subscription_type = b.subscription_type
                /\ a.subscription_value = b.subscription_value ) => a = b)
    /\ [][ ( /\ Message
              /\ last'.handler = "cmd_subscriptions"
              /\ UserOf(actor) # NoRow
              /\ ~is_limited(requests[actor]) ) =>
                fsm_state'[actor] = "SubscriptionState:waiting_for_type" ]_vars
    /\ [][ ( /\ Message
              /\ fsm_state[actor] = "SubscriptionState:waiting_for_value"
              /\ last'.text \notin CancelTokens
              /\ ~is_limited(requests[actor])
              /\ Subscribed(actor, fsm_data[actor]["subscription_type"], last'.text) ) =>
                /\ last'.reply = "already_subscribed"
                /\ UNCHANGED subscriptions ]_vars

\* the (kind, value) pairs a set of new rows of one dealer touches
PairsOf(rows, company_name) ==
    {<<"brand", r.brand>> : r \in rows} \cup {<<"tyre_size", r.tyre_size>> : r \in rows}
        \cup {<<"dealer", company_name>>}

\* the accounts call i of send_notifications has reached
Reached(notified, i) ==
    IF "delivered" \in DOMAIN notified[i].outcome THEN notified[i].outcome.delivered
    ELSE {}

\* the calls of send_notifications made for the pair
CallsFor(notified, pair) ==
    {i \in DOMAIN notified : /\ notified[i].subscription_type = pair[1]
                              /\ notified[i].subscription_value = pair[2]}

\* the message is an upload that has created rows
UploadCreated ==
    Message /\ last'.handler = "process_excel_upload" /\ stock' # stock

\* C24: when an upload creates rows, every subscriber of a pair the new rows
\* touch is reached by exactly one notification for that pair, however many
\* of the rows carry the value.
C24_OneNotificationPerSubscriberAndPair ==
    [][ UploadCreated =>
            \A pair \in PairsOf(stock' \ stock, UserOf(actor).company_name) :
                \A subscriber \in get_subscribers(pair[1], pair[2]) :
                    Cardinality({i \in CallsFor(last'.notified, pair) :
                                    subscriber \in Reached(last'.notified, i)}) = 1
       ]_vars

\* the pairs send_notifications was called for
PairsCalled(notified) ==
    {<<notified[i].subscription_type, notified[i].subscription_value>> : i \in DOMAIN notified}

\* C25: the pairs an upload notifies for are the brands and sizes of the rows
\* it created and the uploader's company, each of them that has a
\* subscriber and no others: no brand or size that is absent from the created
\* rows leads to a notification.
C25_NotifiedPairsAreThoseOfTheBatch ==
    [][ UploadCreated =>
            PairsCalled(last'.notified) =
                {pair \in PairsOf(stock' \ stock, UserOf(actor).company_name) :
                    get_subscribers(pair[1], pair[2]) # {}}
       ]_vars

\* a call of send_notifications ended with an exception
NotificationFailed(notified) ==
    \E i \in DOMAIN notified : "raised" \in DOMAIN notified[i].outcome

\* C26: when notifying fails after an upload has inserted its rows, the rows
\* stay in stock and send_notifications is still called for every other pair
\* of the new rows that has a subscriber.
C26_NotificationFailureIsContained ==
    [][ ( /\ Message
          /\ last'.handler = "process_excel_upload"
          /\ NotificationFailed(last'.notified) ) =>
            /\ stock \subseteq stock'
            /\ Cardinality(stock') = Cardinality(stock) + Len(ExcelRows(last'.text))
            /\ \A pair \in PairsOf(stock' \ stock, UserOf(actor).company_name) :
                  get_subscribers(pair[1], pair[2]) # {} =>
                      pair \in PairsCalled(last'.notified)
       ]_vars

\* the quantity and the retail price of a stock row, whichever program wrote it
QtyOf(r) == IF "qty" \in DOMAIN r THEN r.qty ELSE r.qty_available

RetailPriceOf(r) == IF "price" \in DOMAIN r THEN r.price ELSE r.retail_price

\* C27: every row that a completed add-item conversation or a workbook
\* upload inserts into stock has a quantity above zero and a retail price
\* above zero when it is inserted.
C27_CreatedRowsArePositive ==
    [][ Message => \A r \in stock' \ stock : QtyOf(r) > 0 /\ RetailPriceOf(r) > 0 ]_vars

RegistrationStates ==
    {"Registration:waiting_for_role", "Registration:waiting_for_company",
     "Registration:waiting_for_inn", "Registration:waiting_for_phone",
     "Registration:waiting_for_email"}

\* C28: no two accounts share a Telegram id; the role stored for an account
\* never changes; and a message of a registered user neither adds an account
\* nor leaves the user in the registration conversation.
C28_OneAccountWithFixedRole ==
    /\ [](\A a \in users : \A b \in users : a.telegram_id = b.telegram_id => a = b)
    /\ [][ \A a \in users : \A b \in users' :
                b.telegram_id = a.telegram_id => b.role = a.role ]_vars
    /\ [][ (Message /\ UserOf(actor) # NoRow) =>
                /\ users' = users
                /\ fsm_state'[actor] \notin RegistrationStates ]_vars

\* an account registered in this run has sent /start, or a role button of
\* bot.py, again
C28_RegisteredUserStartedAgain ==
    /\ next_user_id = 2
    /\ UserOf(last.user) # NoRow
    /\ \/ last.handler = "cmd_start" /\ last.reply = "welcome_back"
       \/ last.handler = "process_role" /\ last.reply = "registration_error"

\* C29: a delete-item that the dealer confirms removes exactly one row of
\* stock, a row of the dealer with the SKU that was shown; every other row,
\* other rows of the same account with the same SKU included, stays as it was.
C29_ConfirmedDeleteRemovesOneRow ==
    [][ ( /\ Message
          /\ last'.handler = "process_delete_confirmation"
          /\ last'.text = "Yes"
          /\ last'.reply \notin {"too_many_requests", "handler_error"} ) =>
            /\ stock' \subseteq stock
            /\ Cardinality(stock \ stock') = 1
            /\ \A r \in stock \ stock' : /\ r.user_id = UserOf(actor).id
                                          /\ r.sku = fsm_data[actor]["sku"]
       ]_vars

\* what last'.reply holds when an access to the store has failed: the
\* handler's own error report, or the exception nobody caught
StoreFailures ==
    {"OperationalError", "search_error", "registration_error", "add_error",
     "delete_error"}

\* C30: when a store access fails in a step of a conversation, the
\* conversation is discarded (no step, no fields), the user is told of the
\* failure, and the store is not written again unless a new message arrives.
C30_StoreFailureDiscardsConversation ==
    [][ /\ ( /\ Message
             /\ fsm_state[actor] # None
             /\ last'.reply \in StoreFailures ) =>
                /\ fsm_state'[actor] = None
                /\ fsm_data'[actor] = EmptyData
                /\ last'.reply # "OperationalError"
        /\ ~Message => UNCHANGED <<users, stock, next_user_id, next_stock_id>> ]_vars

\* C31: size_matches is symmetric: what it returned for a query and a stock
\* size is what it returns for the two the other way round.
C31_SizeMatchesIsSymmetric ==
    (call.function = "size_matches" /\ call.done) =>
        call.result = size_matches(call.args[2], call.args[1])

\* C31, case reached: two sizes of different normal forms matched because
\* the stock size lies inside the longer query.
C31_StockSizeInsideQuery ==
    /\ call.function = "size_matches" /\ call.done /\ call.result
    /\ call.args[2] # <<>>
    /\ Len(normalize_tyre_size(call.args[1])) > Len(normalize_tyre_size(call.args[2]))
    /\ Len(normalize_tyre_size(call.args[2])) > 0

\* the characters of s at the positions in keep, in their order
RECURSIVE Pick(_, _, _)
Pick(s, keep, i) ==
    IF i > Len(s) THEN <<>>
    ELSE (IF i \in keep THEN <<s[i]>> ELSE <<>>) \o Pick(s, keep, i + 1)

\* position i of s holds a blank of a run of blanks that touches an R
BlankAtR(s, i) ==
    /\ s[i] = " "
    /\ \E j \in 1..Len(s) :
          /\ s[j] = "R"
          /\ \A k \in 1..Len(s) : ((i < k /\ k < j) \/ (j < k /\ k < i)) => s[k] = " "

\* position i of s holds a blank with nothing but blanks before it, or after it
BlankAtEnd(s, i) ==
    /\ s[i] = " "
    /\ \/ \A k \in 1..i : s[k] = " "
       \/ \A k \in i..Len(s) : s[k] = " "

\* the normal form as the sentence gives it: upper case, "/" for ".", no
\* blanks around an R
StatedNormalForm(s) ==
    LET t == sub_dots(upper(s))
    IN  Pick(t, {i \in 1..Len(t) : ~BlankAtR(t, i)}, 1)

\* the same with, besides, the blanks at both ends dropped and every other
\* run of blanks shortened to one blank
TrimmedNormalForm(s) ==
    LET t == sub_dots(upper(s))
        u == Pick(t, {i \in 1..Len(t) : ~BlankAtEnd(t, i)}, 1)
        v == Pick(u, {i \in 1..Len(u) : ~BlankAtR(u, i)}, 1)
    IN  Pick(v, {i \in 1..Len(v) : ~(i > 1 /\ v[i] = " " /\ v[i - 1] = " ")}, 1)

\* x lies in y as a run of consecutive characters
Inside(x, y) ==
    \E i \in 1..(Len(y) + 1) :
        /\ i + Len(x) - 1 <= Len(y)
        /\ \A k \in 1..Len(x) : y[i + k - 1] = x[k]

EqualOrInside(x, y) == x = y \/ Inside(x, y) \/ Inside(y, x)

SizesCompared == call.function = "size_matches" /\ call.done

\* C32 (as stated): size_matches is true exactly when the normal forms of its
\* arguments (upper case, "/" for ".", no blanks around an R) are equal or
\* one lies inside the other; the three spellings of 195/65 R15 match each other.
C32_MatchIsContainmentOfStatedForms ==
    SizesCompared =>
        /\ call.result = EqualOrInside(StatedNormalForm(call.args[1]),
                                       StatedNormalForm(call.args[2]))
        /\ (call.args[1] \in Spellings /\ call.args[2] \in Spellings) => call.result

\* C32 (amended): the same with the normal form that also drops the blanks at
\* both ends and shortens every remaining run of blanks to one blank.
C32_MatchIsContainmentOfTrimmedForms ==
    SizesCompared =>
        /\ call.result = EqualOrInside(TrimmedNormalForm(call.args[1]),
                                       TrimmedNormalForm(call.args[2]))
        /\ (call.args[1] \in Spellings /\ call.args[2] \in Spellings) => call.result

\* C32, case reached: the query 195.65r15 was compared with the stock size
\* 195/65 R15 and matched.
C32_SpellingsMatched ==
    /\ SizesCompared /\ call.result
    /\ call.args[1] = <<"1", "9", "5", ".", "6", "5", "r", "1", "5">>
    /\ call.args[2] = <<"1", "9", "5", "/", "6", "5", " ", "R", "1", "5">>

PriceSteps == {"AddStock:waiting_for_retail_price", "AddStock:waiting_for_wholesale_price"}

\* text as a price is to be read: the blanks taken out, "," read as "."
PriceNumeral(text) ==
    LET digits == Without(Chars(text), " ")
    IN  [i \in 1..Len(digits) |-> IF digits[i] = "," THEN "." ELSE digits[i]]

\* text is a decimal number above zero when read so
IsPositivePrice(text) ==
    DecimalOk(PriceNumeral(text)) /\ DecimalValue(PriceNumeral(text)) > 0

\* C33: at the retail-price and wholesale-price steps an answer is taken
\* exactly when, blanks removed and "," or "." read as the decimal
\* separator, it is a decimal number above zero, and then that number is what
\* is stored (4500,50 as 4500.5, 4 500 as 4500); any other answer is refused.
C33_PriceAcceptedIffPositiveDecimal ==
    [][ \A s \in PriceSteps :
          ( /\ Message
            /\ fsm_state[actor] = s
            /\ last'.handler = StepHandler(s)
            /\ ~is_limited(requests[actor])
            /\ last'.text \notin CancelTokens )
          => IF IsPositivePrice(last'.text)
             THEN /\ StepField(program, s) \in DOMAIN fsm_data'[actor]
                  /\ fsm_data'[actor][StepField(program, s)] =
                        DecimalValue(PriceNumeral(last'.text))
             ELSE Untouched ]_vars

\* C34: what the dealer is told at the end of the add-item flow is what the
\* store holds: a reported failure means the step inserted no row, and an
\* inserted row means success was reported.
C34_ReportedOutcomeMatchesStore ==
    [][ ( /\ Message
          /\ last'.handler \in {"process_warehouse", "process_region"} )
        => /\ last'.reply = "add_error" => stock' = stock
           /\ stock' # stock => last'.reply = "item_added" ]_vars

ConfirmationSteps == {"DeleteAllStock:confirmation", "DeleteItem:confirmation"}

YesTokens == {"Yes", "Da"}

\* the account whose row r is
OwnerOf(r) == CHOOSE o \in users : o.id = r.user_id

\* C35: a row leaves the inventory only when its owner answers Yes at a
\* delete confirmation step (an admin's message apart); any other answer the
\* handler of such a step receives removes nothing and leaves the sender at
\* the step or without a conversation; a message of another account that is
\* no admin removes no row.
C35_RowRemovedOnlyByOwnersYes ==
    [][ /\ \A r \in stock \ stock' :
             \/ is_admin(actor)
             \/ /\ \E o \in users : o.id = r.user_id
                /\ OwnerOf(r).telegram_id = actor
                /\ fsm_state[actor] \in ConfirmationSteps
                /\ last'.text \in YesTokens
                /\ last'.user = actor
        /\ ( /\ Message
             /\ fsm_state[actor] \in ConfirmationSteps
             /\ last'.handler = StepHandler(fsm_state[actor])
             /\ last'.text \notin YesTokens )
           => /\ stock \subseteq stock'
              /\ fsm_state'[actor] \in {fsm_state[actor], None} ]_vars

\* C35, case reached: a dealer that is no admin has answered Yes at the
\* confirmation of delete-all and owns no row any more.
C35_OwnerConfirmedDeletion ==
    /\ last.handler = "process_delete_all_confirmation"
    /\ last.text \in YesTokens
    /\ ~is_admin(actor)
    /\ UserOf(actor) # NoRow
    /\ stock = {}
    /\ fsm_state[actor] = None

\* C36: /mystock shows the dealer's inventory as it is now: the workbook
\* holds exactly the rows the dealer owns at that moment (and so their
\* number), or the dealer is told the stock is empty when it is.
C36_MyStockShowsCurrentRows ==
    [][ ( /\ Message
          /\ last'.handler = "cmd_mystock"
          /\ last'.reply \in {"your_stock", "your_stock_cache", "stock_empty"} )
        => IF get_user_stock_count(UserOf(actor).id) = 0
           THEN last'.reply = "stock_empty"
           ELSE last'.document = mystock_document(UserOf(actor).id) ]_vars

\* C37: a message takes at most one slot of its sender's window: after it
\* the window holds at most one young request more than before it,
\* whichever handlers it passed through.
C37_OneSlotPerMessage ==
    [][ Message =>
          Len(Recent(requests'[actor])) <= Len(Recent(requests[actor])) + 1 ]_vars

\* C38: no account owns more inventory rows than MAX_STOCK_ITEMS: the
\* add-item flows look at the count when they are entered and the bulk
\* upload looks at it before every row it inserts.
C38_NoAccountOverTheLimit ==
    \A o \in users : get_user_stock_count(o.id) <= MAX_STOCK_ITEMS

\* C38, case reached: a workbook was uploaded by an account that now owns
\* exactly MAX_STOCK_ITEMS rows, and no id was handed out past the rows it
\* owns: the upload met the limit.
C38_UploadMetTheLimit ==
    /\ last.handler = "process_excel_upload"
    /\ IsExcelName(last.text)
    /\ last.reply \in {"upload_report", "excel_error"}
    /\ UserOf(actor) # NoRow
    /\ get_user_stock_count(UserOf(actor).id) = MAX_STOCK_ITEMS

\* the subscription rows of the account that sent the callback
OwnSubscriptions ==
    IF UserOf(actor) = NoRow THEN {}
    ELSE {sub \in subscriptions : sub.user_id = UserOf(actor).id}

\* C39: an unsubscribe callback removes rows of its sender only: whatever
\* id the callback carries, the rows of other accounts are still stored
\* after it, and "unsubscribe all" leaves exactly the rows of the others.
C39_UnsubscribeRemovesOwnRowsOnly ==
    [][ last'.handler = "process_unsubscribe"
        => /\ (subscriptions \ OwnSubscriptions) \subseteq subscriptions'
           /\ last'.text = "unsub_all"
              => subscriptions' = subscriptions \ OwnSubscriptions ]_vars
====
